---- MODULE Spec2Model ----
(***************************************************************************)
(* Stage-transition state machine of the Talk2Publish multi-agent graph    *)
(* (apps/api/src/agents/multi_agent_system.py): the five stage nodes, the  *)
(* entry router and the per-thread checkpoint of BookAgentState.           *)
(*                                                                         *)
(* Text is modelled as a sequence of one-character strings, so that        *)
(* str.split, str.lower, the "in" substring test and len are computed as   *)
(* Python computes them.                                                   *)
(***************************************************************************)
EXTENDS Integers, Sequences, FiniteSets, TLC

\* A request is named like the thread_id it carries ("a", "b"), except where
\* two requests carry the same thread_id (see thread).
VARIABLES
    store,      \* MemorySaver: thread_id -> last checkpointed BookAgentState
    next,       \* per request: the node the graph runs next, or "END" (at rest)
    turn,       \* per request: bookkeeping of the current / last graph.invoke
    committed,  \* per request: the state the last finished turn left behind
    budget,     \* per request: turns still allowed (bounds the exploration)
    events,     \* per request: the events chat_stream has sent for the turn
    local,      \* per request: the channel values the running graph holds
    thread,     \* per request: the thread_id of its config
    prompts,    \* the agent_prompts table: its active rows, and whether the
                \* database can be reached
    cache,      \* _agent_configs_cache of the process
    singletons, \* _orchestrator and _model_instance of the process
    caller,     \* per caller of a getter or loader: its position in the call
                \* and what the call gave back
    made,       \* how often each constructor or loader has run
    session,    \* a database session on agent_prompts: the rows the
                \* database holds for it, its pending objects, and the rows
                \* of the last commit
    chapters,   \* the chapters table, as committed
    files,      \* state["files"], the virtual filesystem of the tools
    outcome     \* what the last tool call returned

\* the variables of the process outside the graph
process_vars == <<singletons, caller, made>>

\* the variables of the database session and of the tools
tool_vars == <<session, chapters, files, outcome>>

vars ==
    <<store, next, turn, committed, budget, events, local, thread, prompts,
      cache, singletons, caller, made, session, chapters, files, outcome>>

----------------------------------------------------------------------------
(* Python string primitives                                                *)

Upper == <<"A", "B", "C", "D", "E", "F", "G", "H", "I", "J", "K", "L", "M", "N", "O", "P", "Q", "R", "S", "T", "U", "V", "W", "X", "Y", "Z">>
Lowered == <<"a", "b", "c", "d", "e", "f", "g", "h", "i", "j", "k", "l", "m", "n", "o", "p", "q", "r", "s", "t", "u", "v", "w", "x", "y", "z">>
Whitespace == {" ", "\t", "\n"}
Digits == {"0", "1", "2", "3", "4", "5", "6", "7", "8", "9"}

\* str.lower() on one character
lower_char(c) ==
    IF \E i \in DOMAIN Upper : Upper[i] = c
    THEN Lowered[CHOOSE i \in DOMAIN Upper : Upper[i] = c]
    ELSE c

\* str.lower()
lower(s) == [i \in 1..Len(s) |-> lower_char(s[i])]

\* len(s.split()): the number of maximal runs of non-whitespace characters
split_len(s) ==
    Cardinality({i \in 1..Len(s) :
        s[i] \notin Whitespace /\ (i = 1 \/ s[i - 1] \in Whitespace)})

\* k in s (substring test)
contains(s, k) ==
    \E i \in 0..(Len(s) - Len(k)) : \A j \in 1..Len(k) : s[i + j] = k[j]

\* any(word in s for word in words)
any_in(s, words) == \E w \in words : contains(s, w)

\* any(char.isdigit() for char in s)
any_digit(s) == \E i \in 1..Len(s) : s[i] \in Digits

\* sep.join(parts)
RECURSIVE join(_, _)
join(sep, parts) ==
    IF Len(parts) = 0 THEN <<>>
    ELSE IF Len(parts) = 1 THEN parts[1]
    ELSE parts[1] \o sep \o join(sep, Tail(parts))

\* seq[-n:]
last_n(seq, n) ==
    IF Len(seq) <= n THEN seq ELSE SubSeq(seq, Len(seq) - n + 1, Len(seq))

----------------------------------------------------------------------------
(* Program constants and keyword lists                                     *)

BioMinWords == 5
ThemeMinWords == 3
AudienceMinWords == 5
MaxAudienceQuestions == 3
AudienceWindow == 6
PlanMinChars == 100

YesWords ==
    { <<"y", "e", "s">>,
      <<"y", "e", "a", "h">>,
      <<"s", "u", "r", "e">>,
      <<"o", "k">>,
      <<"o", "k", "a", "y">>,
      <<"p", "l", "e", "a", "s", "e">>,
      <<"w", "o", "u", "l", "d", " ", "l", "i", "k", "e">> }
NoWords ==
    { <<"n", "o">>,
      <<"n", "o", "p", "e">>,
      <<"n", "o", "t">>,
      <<"d", "o", "n", "'", "t">> }
SelectWords ==
    { <<"o", "p", "t", "i", "o", "n">>,
      <<"c", "h", "o", "o", "s", "e">>,
      <<"s", "e", "l", "e", "c", "t">>,
      <<"p", "i", "c", "k">>,
      <<"l", "i", "k", "e">>,
      <<"p", "r", "e", "f", "e", "r">> }
ApproveWords ==
    { <<"a", "p", "p", "r", "o", "v", "e">>,
      <<"l", "o", "o", "k", "s", " ", "g", "o", "o", "d">>,
      <<"y", "e", "s">> }
CompleteWords ==
    { <<"c", "o", "m", "p", "l", "e", "t", "e">>,
      <<"f", "i", "n", "i", "s", "h", "e", "d">> }
ProfileSeparator == <<" ", "|", " ">>
Untitled == <<"U", "n", "t", "i", "t", "l", "e", "d">>

\* the fixed hand-off messages ("@" stands for the leading emoji character)
ToEmpathText ==
    <<"@", " ", "C", "o", "n", "n", "e", "c", "t", "i", "n", "g", " ", "w", "i", "t", "h", " ", "*", "*", "E", "m", "p", "a", "t", "h", " ", "s", "p", "e", "c", "i", "a", "l", "i", "s", "t", "*", "*", " ", "f", "o", "r", " ", "a", "u", "d", "i", "e", "n", "c", "e", " ", "p", "r", "o", "f", "i", "l", "i", "n", "g", ".", ".", ".">>
ToTitleText ==
    <<"@", " ", "C", "o", "n", "n", "e", "c", "t", "i", "n", "g", " ", "w", "i", "t", "h", " ", "*", "*", "T", "i", "t", "l", "e", " ", "G", "e", "n", "e", "r", "a", "t", "o", "r", "*", "*", ".", ".", ".">>
ToPlannerText ==
    <<"@", " ", "C", "o", "n", "n", "e", "c", "t", "i", "n", "g", " ", "w", "i", "t", "h", " ", "*", "*", "P", "l", "a", "n", "n", "e", "r", "*", "*", " ", "f", "o", "r", " ", "b", "o", "o", "k", " ", "s", "t", "r", "u", "c", "t", "u", "r", "e", ".", ".", ".">>
ToWriterText ==
    <<"@", " ", "C", "o", "n", "n", "e", "c", "t", "i", "n", "g", " ", "w", "i", "t", "h", " ", "*", "*", "W", "r", "i", "t", "e", "r", "*", "*", " ", "f", "o", "r", " ", "c", "o", "n", "t", "e", "n", "t", " ", "c", "r", "e", "a", "t", "i", "o", "n", ".", ".", ".">>

----------------------------------------------------------------------------
(* BookAgentState and its messages                                         *)

\* a key that state.get finds absent (text-valued keys / name-valued keys)
None == <<"None">>
Absent == "None"

HumanMessage(c) == [type |-> "human", content |-> c]
AIMessage(c) == [type |-> "ai", content |-> c]

\* the state of a thread that has no checkpoint: every channel empty
EmptyState ==
    [ active_agent |-> Absent,
      book_name |-> None,
      author_name |-> None,
      author_bio |-> None,
      book_theme |-> None,
      audience_profile |-> None,
      audience_questions_asked |-> 0,
      wants_title_suggestions |-> Absent,
      final_title |-> None,
      book_plan |-> None,
      messages |-> <<>>,
      stage |-> Absent ]

\* bool(state.get(key)) for a text-valued key
truthy(v) == v # None /\ v # <<>>

\* the channel reducers: messages is Annotated[list, operator.add], every
\* other key takes the last value written
ApplyUpdate_last_value(state, update) ==
    [k \in DOMAIN state |->
        IF k \in DOMAIN update THEN update[k] ELSE state[k]]

ApplyUpdate(state, update) ==
    [k \in DOMAIN state |->
        IF k \in DOMAIN update
        THEN IF k = "messages" THEN state[k] \o update[k] ELSE update[k]
        ELSE state[k]]

\* next((m.content for m in reversed(messages) if isinstance(m, HumanMessage)), "")
last_user_message(messages) ==
    LET idx == {i \in 1..Len(messages) : messages[i].type = "human"}
    IN  IF idx = {} THEN <<>>
        ELSE messages[CHOOSE i \in idx : \A j \in idx : j <= i].content

\* Command(update=..., goto=...); called records whether model.invoke ran
Command(update, goto, called) ==
    [update |-> update, goto |-> goto, called |-> called]

\* an update that writes key k only when cond holds
When(cond, k, v) == IF cond THEN k :> v ELSE [x \in {} |-> v]

----------------------------------------------------------------------------
(* The five stage nodes.  response is the text model.invoke returns.       *)

\* the update of a node that called the model and stays: the reply is
\* appended and the node writes its own display name and stage
stay_update_copied(response, agent, stage) ==
    [ messages |-> <<AIMessage(response)>>,
      active_agent |-> agent,
      stage |-> "biographer" ]

stay_update_unnamed(response, agent, stage) ==
    [ messages |-> <<AIMessage(response)>>,
      stage |-> stage ]

stay_update(response, agent, stage) ==
    [ messages |-> <<AIMessage(response)>>,
      active_agent |-> agent,
      stage |-> stage ]

\* the update of a node that hands off: the fixed message is appended and
\* the successor's display name and stage are written
hand_off_stage_only(text, agent, stage) ==
    [ messages |-> <<AIMessage(text)>>,
      stage |-> stage ]

hand_off_twice(text, agent, stage) ==
    [ messages |-> <<AIMessage(text), AIMessage(text)>>,
      active_agent |-> agent,
      stage |-> stage ]

hand_off(text, agent, stage) ==
    [ messages |-> <<AIMessage(text)>>,
      active_agent |-> agent,
      stage |-> stage ]

\* the extraction chain of biographer_node: the key the latest user message
\* is stored under, or "none"
profiling_field_swapped(state, words) ==
    IF ~truthy(state.book_name) /\ words > 0 THEN "book_name"
    ELSE IF ~truthy(state.author_name) /\ truthy(state.book_name) /\ words > 0
         THEN "author_bio"
    ELSE IF ~truthy(state.author_bio) /\ truthy(state.author_name)
            /\ words > BioMinWords
         THEN "author_name"
    ELSE IF ~truthy(state.book_theme) /\ truthy(state.author_bio)
            /\ words > ThemeMinWords
         THEN "book_theme"
    ELSE "none"

profiling_field_one_threshold(state, words) ==
    IF ~truthy(state.book_name) /\ words > 0 THEN "book_name"
    ELSE IF ~truthy(state.author_name) /\ truthy(state.book_name) /\ words > 0
         THEN "author_name"
    ELSE IF ~truthy(state.author_bio) /\ truthy(state.author_name)
            /\ words > ThemeMinWords
         THEN "author_bio"
    ELSE IF ~truthy(state.book_theme) /\ truthy(state.author_bio)
            /\ words > ThemeMinWords
         THEN "book_theme"
    ELSE "none"

profiling_field_unguarded(state, words) ==
    IF words > 0 THEN "book_name"
    ELSE IF ~truthy(state.author_name) /\ truthy(state.book_name) /\ words > 0
         THEN "author_name"
    ELSE IF ~truthy(state.author_bio) /\ truthy(state.author_name)
            /\ words > BioMinWords
         THEN "author_bio"
    ELSE IF ~truthy(state.book_theme) /\ truthy(state.author_bio)
            /\ words > ThemeMinWords
         THEN "book_theme"
    ELSE "none"

profiling_field(state, words) ==
    IF ~truthy(state.book_name) /\ words > 0 THEN "book_name"
    ELSE IF ~truthy(state.author_name) /\ truthy(state.book_name) /\ words > 0
         THEN "author_name"
    ELSE IF ~truthy(state.author_bio) /\ truthy(state.author_name)
            /\ words > BioMinWords
         THEN "author_bio"
    ELSE IF ~truthy(state.book_theme) /\ truthy(state.author_bio)
            /\ words > ThemeMinWords
         THEN "book_theme"
    ELSE "none"

biographer_node(state, response) ==
    LET has_book_name == truthy(state.book_name)
        has_author_name == truthy(state.author_name)
        has_author_bio == truthy(state.author_bio)
        has_book_theme == truthy(state.book_theme)
        last == last_user_message(state.messages)
        field == profiling_field(state, split_len(last))
    IN  IF has_book_name /\ has_author_name /\ has_author_bio /\ has_book_theme
        THEN Command(hand_off(ToEmpathText, "Empath", "empath"),
                     "empath", FALSE)
        ELSE Command(stay_update(response, "Biographer", "biographer")
                       @@ When(field # "none", field, last),
                     "END", TRUE)

\* whether the count just written calls for the profile to be synthesized
synthesis_due_late(asked) == asked > MaxAudienceQuestions

synthesis_due(asked) == asked >= MaxAudienceQuestions

\* the profile: the user messages among the last six messages, joined
synthesize_profile_last_three(messages) ==
    LET audience_responses == SelectSeq(messages, LAMBDA m : m.type = "human")
        counted == last_n(audience_responses, MaxAudienceQuestions)
    IN  join(ProfileSeparator,
             [i \in 1..Len(counted) |-> counted[i].content])

synthesize_profile(messages) ==
    LET window == last_n(messages, AudienceWindow)
        audience_responses == SelectSeq(window, LAMBDA m : m.type = "human")
    IN  join(ProfileSeparator,
             [i \in 1..Len(audience_responses) |->
                 audience_responses[i].content])

empath_node(state, response) ==
    LET audience_questions_asked == state.audience_questions_asked
        has_audience_profile == truthy(state.audience_profile)
        last == last_user_message(state.messages)
        counted == audience_questions_asked < MaxAudienceQuestions
                   /\ split_len(last) > AudienceMinWords
    IN  IF has_audience_profile
        THEN Command(hand_off(ToTitleText, "Title Generator",
                              "title_generator"),
                     "title_generator", FALSE)
        ELSE Command(stay_update(response, "Empath", "empath")
                       @@ When(counted, "audience_questions_asked",
                               audience_questions_asked + 1)
                       @@ When(counted
                                 /\ synthesis_due(audience_questions_asked + 1),
                               "audience_profile",
                               synthesize_profile(state.messages)),
                     "END", TRUE)

\* "wants_title_suggestions is False"
declined_falsy(wants_title_suggestions) == wants_title_suggestions # "True"

declined(wants_title_suggestions) == wants_title_suggestions = "False"

\* state.get("book_name", "Untitled")
working_title_default(state) == Untitled

working_title(state) ==
    IF state.book_name = None THEN Untitled ELSE state.book_name

\* the node with the selection tested against the flag as just updated
title_generator_node_same_turn(state, response) ==
    LET wants_title_suggestions == state.wants_title_suggestions
        has_final_title == truthy(state.final_title)
        last == last_user_message(state.messages)
        last_lower == lower(last)
        asks == wants_title_suggestions = Absent /\ last # <<>>
        accepted == asks /\ any_in(last_lower, YesWords)
        selected == (wants_title_suggestions = "True" \/ accepted)
                    /\ last # <<>>
                    /\ (any_in(last_lower, SelectWords) \/ any_digit(last))
    IN  IF has_final_title
        THEN Command(hand_off(ToPlannerText, "Planner", "planner"),
                     "planner", FALSE)
        ELSE IF declined(wants_title_suggestions)
        THEN Command(hand_off(ToPlannerText, "Planner", "planner")
                       @@ [final_title |-> working_title(state)],
                     "planner", FALSE)
        ELSE Command(stay_update(response, "Title Generator",
                                 "title_generator")
                       @@ When(accepted, "wants_title_suggestions", "True")
                       @@ When(asks /\ ~any_in(last_lower, YesWords)
                                    /\ any_in(last_lower, NoWords),
                               "wants_title_suggestions", "False")
                       @@ When(selected, "final_title", last),
                     "END", TRUE)

title_generator_node(state, response) ==
    LET wants_title_suggestions == state.wants_title_suggestions
        has_final_title == truthy(state.final_title)
        last == last_user_message(state.messages)
        last_lower == lower(last)
        asks == wants_title_suggestions = Absent /\ last # <<>>
        selected == wants_title_suggestions = "True" /\ last # <<>>
                    /\ (any_in(last_lower, SelectWords) \/ any_digit(last))
    IN  IF has_final_title
        THEN Command(hand_off(ToPlannerText, "Planner", "planner"),
                     "planner", FALSE)
        ELSE IF declined(wants_title_suggestions)
        THEN Command(hand_off(ToPlannerText, "Planner", "planner")
                       @@ [final_title |-> working_title(state)],
                     "planner", FALSE)
        ELSE Command(stay_update(response, "Title Generator",
                                 "title_generator")
                       @@ When(asks /\ any_in(last_lower, YesWords),
                               "wants_title_suggestions", "True")
                       @@ When(asks /\ ~any_in(last_lower, YesWords)
                                    /\ any_in(last_lower, NoWords),
                               "wants_title_suggestions", "False")
                       @@ When(selected, "final_title", last),
                     "END", TRUE)

\* the oldest assistant message of more than 100 characters, or ""
plan_message_oldest(messages) ==
    LET substantial ==
            {i \in 1..Len(messages) :
                /\ messages[i].type = "ai"
                /\ Len(messages[i].content) > PlanMinChars}
    IN  IF substantial = {} THEN <<>>
        ELSE messages[CHOOSE i \in substantial :
                          \A j \in substantial : i <= j].content

\* the most recent assistant message of more than 100 characters, or ""
plan_message(messages) ==
    LET substantial ==
            {i \in 1..Len(messages) :
                /\ messages[i].type = "ai"
                /\ Len(messages[i].content) > PlanMinChars}
    IN  IF substantial = {} THEN <<>>
        ELSE messages[CHOOSE i \in substantial :
                          \A j \in substantial : j <= i].content

\* the node with "book_plan is not None" for its gate
planner_node_is_not_none(state, response) ==
    LET has_book_plan == state.book_plan # None
        last_lower == lower(last_user_message(state.messages))
    IN  IF has_book_plan
        THEN Command(hand_off(ToWriterText, "Writer", "writer"),
                     "writer", FALSE)
        ELSE Command(stay_update(response, "Planner", "planner")
                       @@ When(any_in(last_lower, ApproveWords),
                               "book_plan", plan_message(state.messages)),
                     "END", TRUE)

planner_node(state, response) ==
    LET has_book_plan == truthy(state.book_plan)
        last_lower == lower(last_user_message(state.messages))
    IN  IF has_book_plan
        THEN Command(hand_off(ToWriterText, "Writer", "writer"),
                     "writer", FALSE)
        ELSE Command(stay_update(response, "Planner", "planner")
                       @@ When(any_in(last_lower, ApproveWords),
                               "book_plan", plan_message(state.messages)),
                     "END", TRUE)

\* the node with the keywords tested against the message as written
writer_node_case_sensitive(state, response) ==
    LET last == last_user_message(state.messages)
    IN  Command(When(any_in(last, CompleteWords), "stage", "complete")
                  @@ stay_update(response, "Writer", "writer"),
                "END", TRUE)

writer_node(state, response) ==
    LET last_lower == lower(last_user_message(state.messages))
    IN  Command(When(any_in(last_lower, CompleteWords), "stage", "complete")
                  @@ stay_update(response, "Writer", "writer"),
                "END", TRUE)

----------------------------------------------------------------------------
(* The prompt configuration: the agent_prompts table, load_agent_configs   *)
(* and the process-wide cache of get_agent_configs                         *)

\* the agent_name of the rows that seed_agents creates
BiographerName == <<"b", "i", "o", "g", "r", "a", "p", "h", "e", "r">>
EmpathName == <<"e", "m", "p", "a", "t", "h">>
PlannerName == <<"p", "l", "a", "n", "n", "e", "r">>
WriterName == <<"w", "r", "i", "t", "e", "r">>

\* the key a node looks its configuration up under
config_key(node) ==
    CASE node = "biographer" -> <<"b", "i", "o", "g", "r", "a", "p", "h", "e", "r">>
      [] node = "empath" -> <<"e", "m", "p", "a", "t", "h">>
      [] node = "title_generator" -> <<"t", "i", "t", "l", "e", "_", "g", "e", "n", "e", "r", "a", "t", "o", "r">>
      [] node = "planner" -> <<"p", "l", "a", "n", "n", "e", "r">>

\* the prompt hard-coded in a node, and the prompt texts a row can hold
DefaultPrompt(node) == <<"default", node>>
PromptTexts == {<<"v1">>, <<"v2">>}

\* load_agent_configs(): one entry per active row, keyed by the lowercase
\* agent_name; rows maps agent_name to prompt_content
load_agent_configs(rows) ==
    [k \in {lower(name) : name \in DOMAIN rows} |->
        [prompt |-> rows[CHOOSE name \in DOMAIN rows : lower(name) = k]]]

\* _agent_configs_cache is None
NoCache == [loaded |-> FALSE, configs |-> load_agent_configs(<<>>)]

\* "_agent_configs_cache is None", the test get_agent_configs makes
cache_is_falsy(cached) ==
    ~cached.loaded \/ cached.configs = load_agent_configs(<<>>)

cache_is_none(cached) == ~cached.loaded

\* get_agent_configs(): the cache after the call; the table is read only
\* while the cache is None
get_agent_configs(cached, table) ==
    IF cached.loaded THEN cached
    ELSE [loaded |-> TRUE, configs |-> load_agent_configs(table.rows)]

\* get_agent_configs() raises: the cache is None and the session fails
load_raises(cached, table) == ~cached.loaded /\ ~table.available

\* config.get("prompt", <hard-coded text>) of a node; writer_node has only
\* its hard-coded text
system_prompt(node, configs) ==
    IF node # "writer" /\ config_key(node) \in DOMAIN configs
    THEN configs[config_key(node)].prompt
    ELSE DefaultPrompt(node)

\* whether a node reads the configuration, and the cache it leaves
reads_configs(node) == node # "writer"
cache_after(node, cached, table) ==
    IF reads_configs(node) THEN get_agent_configs(cached, table) ELSE cached

\* the table after seed_agents, and an empty table
SeededRows ==
    [name \in {BiographerName, EmpathName, PlannerName, WriterName} |->
        <<"v1">>]
NoRows == [name \in {} |-> <<"v1">>]

\* the prompt text the table holds for a node when a turn asks for it now:
\* the text of its row, or no text when there is no row or no database
table_prompt(node, table) ==
    LET configs == load_agent_configs(table.rows)
    IN  IF table.available /\ reads_configs(node)
           /\ config_key(node) \in DOMAIN configs
        THEN configs[config_key(node)].prompt
        ELSE <<>>

\* the description every row of an agent is created with
Description(name) == <<"A", "b", "o", "u", "t", " ">> \o name

\* the AgentPrompt records of the table: the active row of each agent, and
\* the rows that create_prompt has deactivated or created inactive
agent_prompts(table) ==
    {[agent_name |-> name, description |-> Description(name),
      prompt_content |-> table.rows[name], is_active |-> TRUE] :
         name \in DOMAIN table.rows}
      \cup {[agent_name |-> r.agent_name,
              description |-> Description(r.agent_name),
              prompt_content |-> r.prompt_content, is_active |-> FALSE] :
                 r \in table.retired}

\* the position of a character in the collation of agent_name
collate(c) ==
    IF \E i \in DOMAIN Lowered : Lowered[i] = c
    THEN CHOOSE i \in DOMAIN Lowered : Lowered[i] = c
    ELSE 0

\* a sorts before b
RECURSIVE sorts_before(_, _)
sorts_before(a, b) ==
    IF b = <<>> THEN FALSE
    ELSE IF a = <<>> THEN TRUE
    ELSE IF collate(Head(a)) # collate(Head(b))
         THEN collate(Head(a)) < collate(Head(b))
    ELSE sorts_before(Tail(a), Tail(b))

\* query.order_by(AgentPrompt.agent_name).all()
RECURSIVE order_by_agent_name(_)
order_by_agent_name(records) ==
    IF records = {} THEN <<>>
    ELSE LET first == CHOOSE r \in records :
                          \A q \in records :
                              ~sorts_before(q.agent_name, r.agent_name)
         IN  <<first>> \o order_by_agent_name(records \ {first})

\* AgentPromptRepository.get_active_agents()
get_active_agents(table) ==
    order_by_agent_name({r \in agent_prompts(table) : r.is_active})

\* AgentPromptRepository.get_active_agent_by_name(agent_name): the rows
\* .first() chooses from (none: it returns None)
get_active_agent_by_name_any(table, agent_name) ==
    {r \in agent_prompts(table) : r.agent_name = agent_name}

get_active_agent_by_name(table, agent_name) ==
    {r \in agent_prompts(table) : r.agent_name = agent_name /\ r.is_active}

\* the SubAgent a loader builds from an AgentPrompt record
SubAgent(prompt) ==
    [name |-> prompt.agent_name, description |-> prompt.description,
     prompt |-> prompt.prompt_content]

\* what a call gives back: the value returned, or the exception raised
Returned(value) == [raised |-> "none", value |-> value]
Raised(exception) == [raised |-> exception, value |-> <<>>]

\* load_active_subagents(): one SubAgent per active row, in the order of the
\* repository; get_session raises when the database cannot be reached
load_active_subagents(table) ==
    IF ~table.available THEN Raised("OperationalError")
    ELSE LET active_prompts == get_active_agents(table)
         IN  Returned([i \in 1..Len(active_prompts) |->
                          SubAgent(active_prompts[i])])

\* load_subagent_by_name(agent_name)
load_subagent_by_name(table, agent_name) ==
    IF ~table.available THEN Raised("OperationalError")
    ELSE LET found == get_active_agent_by_name(table, agent_name)
         IN  IF found = {} THEN Raised("ValueError")
             ELSE Returned(<<SubAgent(CHOOSE r \in found : TRUE)>>)

----------------------------------------------------------------------------
(* The orchestrator (agents/orchestrator.py) and the singletons            *)

\* _orchestrator is None; otherwise the agent and its checkpointer
NoOrchestrator == [subagents |-> <<>>, checkpointer |-> "None"]

\* create_orchestrator(): the agent with its MemorySaver attached, or the
\* exception it raises
create_orchestrator_unchecked(table) ==
    LET subagents == load_active_subagents(table)
    IN  IF subagents.raised # "none"
        THEN [raised |-> subagents.raised, value |-> NoOrchestrator]
        ELSE [raised |-> "none",
              value |-> [subagents |-> subagents.value,
                         checkpointer |-> "MemorySaver"]]

create_orchestrator(table) ==
    LET subagents == load_active_subagents(table)
    IN  IF subagents.raised # "none"
        THEN [raised |-> subagents.raised, value |-> NoOrchestrator]
        ELSE IF subagents.value = <<>>
        THEN [raised |-> "RuntimeError", value |-> NoOrchestrator]
        ELSE [raised |-> "none",
              value |-> [subagents |-> subagents.value,
                         checkpointer |-> "MemorySaver"]]

\* get_orchestrator(): what the call gives back, and _orchestrator after it
get_orchestrator(current, table) ==
    IF current # NoOrchestrator
    THEN [raised |-> "none", value |-> current, global |-> current]
    ELSE LET created == create_orchestrator(table)
         IN  [raised |-> created.raised, value |-> created.value,
              global |-> IF created.raised = "none" THEN created.value
                         ELSE current]

\* the module globals _orchestrator and _model_instance before first use;
\* a ChatAnthropic instance is named by the number of the construction that
\* made it, None by 0
NoSingletons == [orchestrator |-> NoOrchestrator, model_instance |-> 0]

\* the callers of the getters and loaders, and a caller that has made no call
Callers == {"c1", "c2"}
NoCall ==
    [pc |-> "idle", fn |-> "none", arg |-> <<>>, raised |-> "none",
     orchestrator |-> NoOrchestrator, loaded |-> Raised("not called"),
     model |-> 0, configs |-> NoCache.configs, calls |-> 0]
NoneMade == [orchestrator |-> 0, model_instance |-> 0, configs |-> 0]

----------------------------------------------------------------------------
(* The graph: entry routing, node dispatch and the checkpointer            *)

Nodes == {"biographer", "empath", "title_generator", "planner", "writer"}

\* the thread_id values passed in config["configurable"]
ThreadIds == {"a", "b"}

\* route_entry: state.get("stage", "biographer")
route_entry(state) ==
    IF state.stage = Absent THEN "biographer" ELSE state.stage

\* the mapping handed to set_conditional_entry_point
entry_target_reopens(route) == IF route = "complete" THEN "writer" ELSE route

entry_target_skips_writer(route) ==
    IF route \in {"complete", "writer"} THEN "END" ELSE route

\* a route that is no key of the mapping raises KeyError
entry_target(route) ==
    IF route \in Nodes THEN route
    ELSE IF route = "complete" THEN "END"
    ELSE "KeyError"

\* the node function registered under each node name
run_node(node, state, response) ==
    CASE node = "biographer" -> biographer_node(state, response)
      [] node = "empath" -> empath_node(state, response)
      [] node = "title_generator" -> title_generator_node(state, response)
      [] node = "planner" -> planner_node(state, response)
      [] node = "writer" -> writer_node(state, response)

\* the checkpointer read at the start of graph.invoke for a thread_id
resume(saver, thread_id) ==
    IF thread_id \in DOMAIN saver THEN saver[thread_id] ELSE EmptyState

\* the checkpointer write after a step of the graph for a thread_id
persist_unkeyed(saver, thread_id, state) == [t \in ThreadIds |-> state]

persist(saver, thread_id, state) ==
    [t \in DOMAIN saver \cup {thread_id} |->
        IF t = thread_id THEN state ELSE saver[t]]

\* a whole successful graph.invoke, as a function: apply the input, enter at
\* the routed node and follow goto until END
RECURSIVE run_from(_, _, _)
run_from(node, state, response) ==
    IF node \notin Nodes THEN state
    ELSE LET cmd == run_node(node, state, response)
         IN  run_from(cmd.goto, ApplyUpdate(state, cmd.update), response)

invoke(state, input, response) ==
    LET entered == ApplyUpdate(state, [messages |-> input])
    IN  run_from(entry_target(route_entry(entered)), entered, response)

\* the state after a sequence of turns, each <<input, response>>
RECURSIVE replay(_, _)
replay(state, script) ==
    IF script = <<>> THEN state
    ELSE replay(invoke(state, script[1][1], script[1][2]), Tail(script))

----------------------------------------------------------------------------
(* The chat routes (routes/chat.py): what is sent back for a turn          *)

EmpathMarks ==
    { <<"e", "m", "p", "a", "t", "h", " ", "s", "p", "e", "c", "i", "a", "l", "i", "s", "t">>,
      <<"c", "o", "n", "n", "e", "c", "t", " ", "y", "o", "u", " ", "w", "i", "t", "h", " ", "o", "u", "r", " ", "e", "m", "p", "a", "t", "h">> }
PlannerMarks ==
    { <<"p", "l", "a", "n", "n", "e", "r", " ", "s", "p", "e", "c", "i", "a", "l", "i", "s", "t">>,
      <<"b", "r", "i", "n", "g", " ", "i", "n", " ", "o", "u", "r", " ", "p", "l", "a", "n", "n", "e", "r">> }
FieldLabels ==
    { <<"b", "o", "o", "k", " ", "n", "a", "m", "e", ":">>,
      <<"a", "u", "t", "h", "o", "r", " ", "n", "a", "m", "e", ":">>,
      <<"a", "u", "t", "h", "o", "r", " ", "b", "i", "o", ":">> }
BoldFieldLabels ==
    { <<"*", "*", "a", "u", "t", "h", "o", "r", " ", "b", "i", "o", ":", "*", "*">>,
      <<"*", "*", "a", "u", "t", "h", "o", "r", " ", "n", "a", "m", "e", ":", "*", "*">> }
AudienceProfileLabel == <<"*", "*", "a", "u", "d", "i", "e", "n", "c", "e", " ", "p", "r", "o", "f", "i", "l", "e", ":", "*", "*">>
FinalTitleLabel == <<"*", "*", "f", "i", "n", "a", "l", " ", "t", "i", "t", "l", "e", ":", "*", "*">>
TitleWord == <<"t", "i", "t", "l", "e">>
ListNumbers ==
    { <<"1", ".">>, <<"2", ".">>, <<"3", ".">>, <<"4", ".">>, <<"5", ".">> }
AudienceQuestions ==
    { <<"w", "h", "o", " ", "i", "s", " ", "y", "o", "u", "r", " ", "i", "d", "e", "a", "l", " ", "r", "e", "a", "d", "e", "r">>,
      <<"t", "a", "r", "g", "e", "t", " ", "a", "u", "d", "i", "e", "n", "c", "e">>,
      <<"r", "e", "a", "d", "e", "r", "'", "s", " ", "p", "a", "i", "n">>,
      <<"r", "e", "a", "d", "e", "r", " ", "n", "e", "e", "d", "s">> }

\* detect_agent_from_content(content), with default "Orchestrator"
detect_agent_from_content(content) ==
    LET content_lower == lower(content)
    IN  IF any_in(content_lower, EmpathMarks) THEN "Empath"
        ELSE IF any_in(content_lower, PlannerMarks) THEN "Planner"
        ELSE IF any_in(content_lower, FieldLabels)
                /\ any_in(content_lower, BoldFieldLabels) THEN "Biographer"
        ELSE IF contains(content_lower, AudienceProfileLabel)
             THEN "Orchestrator"
        ELSE IF contains(content_lower, FinalTitleLabel)
                \/ (contains(content_lower, TitleWord)
                      /\ any_in(content, ListNumbers)) THEN "Orchestrator"
        ELSE IF any_in(content_lower, AudienceQuestions) THEN "Empath"
        ELSE "Orchestrator"

\* bool(content and content.strip())
has_text(content) == \E i \in 1..Len(content) : content[i] \notin Whitespace

\* the loop body without the test of the role
message_events_any_role(messages, thread_id) ==
    IF messages # <<>>
    THEN << [type |-> "message",
             role |-> IF messages[Len(messages)].type = "ai"
                      THEN "assistant" ELSE "user",
             content |-> messages[Len(messages)].content,
             agent |-> detect_agent_from_content(
                           messages[Len(messages)].content),
             thread_id |-> thread_id] >>
    ELSE <<>>

\* the loop body of event_generator for one streamed value of the state: a
\* message event when the latest message is an assistant message
message_events(messages, thread_id) ==
    IF messages # <<>> /\ messages[Len(messages)].type = "ai"
    THEN << [type |-> "message", role |-> "assistant",
             content |-> messages[Len(messages)].content,
             agent |-> detect_agent_from_content(
                           messages[Len(messages)].content),
             thread_id |-> thread_id] >>
    ELSE <<>>

\* the loop of chat over reversed(all_messages): the first user message met
\* (the latest) is skipped, the second one ends the loop; every assistant
\* message met on the way that has text is put in front of the response
chat_response(all_messages, thread_id) ==
    LET humans == {i \in 1..Len(all_messages) :
                      all_messages[i].type = "human"}
        latest == IF humans = {} THEN 0
                  ELSE CHOOSE i \in humans : \A j \in humans : j <= i
        earlier == {i \in humans : i < latest}
        stop == IF earlier = {} THEN 0
                ELSE CHOOSE i \in earlier : \A j \in earlier : j <= i
        met == SubSeq(all_messages, stop + 1, Len(all_messages))
        kept == SelectSeq(met, LAMBDA m : m.type = "ai" /\ has_text(m.content))
    IN  [ messages |->
              [i \in 1..Len(kept) |->
                  [role |-> "assistant", content |-> kept[i].content,
                   agent |-> detect_agent_from_content(kept[i].content)]],
          thread_id |-> thread_id ]

\* ChatRequest: the body passes validation when it has the required field
\* messages and every item of it has the required fields role and content;
\* thread_id is optional
ChatRequest_lenient(payload) == TRUE

ChatRequest(payload) ==
    /\ "messages" \in DOMAIN payload
    /\ \A i \in 1..Len(payload.messages) :
           {"role", "content"} \subseteq DOMAIN payload.messages[i]

\* request.messages: the items of the body, none when it has no such field
request_messages(payload) ==
    IF "messages" \in DOMAIN payload THEN payload.messages ELSE <<>>

\* {"role": msg.role, "content": msg.content} as the graph reads it: a
\* message of role user is a HumanMessage, any other an AIMessage
langgraph_message(msg) ==
    IF "role" \in DOMAIN msg /\ "content" \in DOMAIN msg
    THEN IF msg.role = "user" THEN HumanMessage(msg.content)
         ELSE AIMessage(msg.content)
    ELSE HumanMessage(<<>>)

langgraph_messages(payload) ==
    [i \in 1..Len(request_messages(payload)) |->
        langgraph_message(request_messages(payload)[i])]

\* the completion event and the event of the except branch
done_event(thread_id) == [type |-> "done", thread_id |-> thread_id]
error_event == [type |-> "error"]

----------------------------------------------------------------------------
(* A database session on the agent_prompts table                           *)

\* AgentPrompt(agent_name=..., prompt_content=..., is_active=...)
AgentPrompt(agent_name, prompt_content, is_active) ==
    [agent_name |-> agent_name, prompt_content |-> prompt_content,
     is_active |-> is_active]

\* SessionLocal(): nothing pending, nothing changed, an empty table
NoSession == [committed |-> <<>>, rows |-> <<>>, new |-> <<>>, calls |-> 0]

\* query(AgentPrompt).filter(agent_name == ...).update({"is_active": False}):
\* an UPDATE on the rows the database holds; the session is made with
\* autoflush=False, so objects that were added and not yet flushed are no
\* rows and are not reached
deactivate(rows, agent_name) ==
    [i \in 1..Len(rows) |->
        IF rows[i].agent_name = agent_name
        THEN [rows[i] EXCEPT !.is_active = FALSE] ELSE rows[i]]

\* AgentPromptRepository.create_prompt
create_prompt(s, agent_name, prompt_content, is_active) ==
    [s EXCEPT
        !.rows = IF is_active THEN deactivate(@, agent_name) ELSE @,
        !.new = Append(@, AgentPrompt(agent_name, prompt_content, is_active)),
        !.calls = @ + 1]

\* session.commit(): the pending objects are inserted in the order they
\* were added, and the transaction is made durable
commit(s) ==
    [s EXCEPT !.committed = s.rows \o s.new, !.rows = s.rows \o s.new,
              !.new = <<>>]

\* session.rollback(): pending objects are dropped and the rows are those of
\* the last commit
rollback(s) == [s EXCEPT !.rows = s.committed, !.new = <<>>]

\* the prompts the session stands for: the rows and the pending objects
all_prompts(s) == s.rows \o s.new

----------------------------------------------------------------------------
(* The tools on the virtual filesystem and the chapters table              *)

\* no chapter, no file, no tool call yet
NoChapters == [id \in {} |-> <<>>]
NoFiles == [key \in {} |-> <<>>]
NoResult ==
    [tool |-> "none", success |-> FALSE, error |-> "", size |-> 0,
     calls |-> 0]

\* f"chapter_{chapter_number}_draft.md" and the like
file_key(chapter_number, suffix) == <<"chapter", chapter_number, suffix>>

\* the content of a file: a text that is no JSON document, or the text of
\* the JSON document json.dumps gives for a value
Text(text) == [kind |-> "text", text |-> text, data |-> <<>>]
json_dumps(data) == [kind |-> "json", text |-> <<>>, data |-> data]

\* json.loads: the value of a JSON document, JSONDecodeError for other text
json_loads(content) ==
    IF content.kind = "json" THEN Returned(content.data)
    ELSE Raised("JSONDecodeError")

HexDigits ==
    Digits \cup {"a", "b", "c", "d", "e", "f", "A", "B", "C", "D", "E", "F"}

\* uuid.UUID(hex): the hyphens are removed; ValueError unless 32
\* hexadecimal digits are left; the value does not depend on the case
UUID(hex) ==
    LET digits == SelectSeq(hex, LAMBDA c : c # "-")
    IN  IF Len(digits) = 32 /\ \A i \in 1..32 : digits[i] \in HexDigits
        THEN Returned(lower(digits))
        ELSE Raised("ValueError")

\* a row of chapters as create_chapters leaves it
Chapter ==
    [raw_transcript |-> None, hitl_clarifications |-> <<>>,
     draft_content |-> None, status |-> "planned"]

\* a lookup that takes any chapter for the one asked for
get_by_id_any(table, chapter_id) ==
    IF DOMAIN table = {} THEN {} ELSE {CHOOSE id \in DOMAIN table : TRUE}

\* ChapterRepository.get_by_id: the chapter of that id, if any
get_by_id(table, chapter_id) == {id \in DOMAIN table : id = chapter_id}

\* ChapterRepository.update_draft / update_transcript /
\* update_hitl_clarifications: the table with the chapter changed, and
\* whether a chapter was found
update_draft(table, chapter_id, draft_content) ==
    [chapter |-> get_by_id(table, chapter_id),
     table |-> [id \in DOMAIN table |->
                   IF id \in get_by_id(table, chapter_id)
                   THEN [table[id] EXCEPT !.draft_content = draft_content,
                                          !.status = "drafted"]
                   ELSE table[id]]]

update_transcript(table, chapter_id, transcript) ==
    [chapter |-> get_by_id(table, chapter_id),
     table |-> [id \in DOMAIN table |->
                   IF id \in get_by_id(table, chapter_id)
                   THEN [table[id] EXCEPT !.raw_transcript = transcript,
                                          !.status = "transcript_provided"]
                   ELSE table[id]]]

update_hitl_clarifications(table, chapter_id, clarifications) ==
    [chapter |-> get_by_id(table, chapter_id),
     table |-> [id \in DOMAIN table |->
                   IF id \in get_by_id(table, chapter_id)
                   THEN [table[id] EXCEPT
                            !.hitl_clarifications = clarifications]
                   ELSE table[id]]]

\* the dict a persistence tool returns, and the table it leaves committed
Saved(tool, table, size) ==
    [table |-> table,
     out |-> [tool |-> tool, success |-> TRUE, error |-> "", size |-> size]]

NotSaved(tool, table, error) ==
    [table |-> table,
     out |-> [tool |-> tool, success |-> FALSE, error |-> error, size |-> 0]]

\* the try block the three tools share: UUID(chapter_id), the update inside
\* "with get_session()", the commit when a chapter came back; a database
\* that cannot be reached raises inside the block
persist_artifact(tool, table, available, chapter_id, content, size) ==
    LET chapter_uuid == UUID(chapter_id)
        updated ==
            CASE tool = "save_chapter_draft" ->
                     update_draft(table, chapter_uuid.value, content)
              [] tool = "save_chapter_transcript" ->
                     update_transcript(table, chapter_uuid.value, content)
              [] OTHER ->
                     update_hitl_clarifications(table, chapter_uuid.value,
                                                content)
    IN  IF chapter_uuid.raised # "none"
        THEN NotSaved(tool, table, "ValueError")
        ELSE IF ~available
        THEN NotSaved(tool, table, "OperationalError")
        ELSE IF updated.chapter # {}
        THEN Saved(tool, updated.table, size)
        ELSE NotSaved(tool, table, "Invalid chapter_id")

save_chapter_draft(fs, table, available, chapter_id, chapter_number) ==
    LET draft_key == file_key(chapter_number, "draft.md")
    IN  IF draft_key \notin DOMAIN fs
        THEN NotSaved("save_chapter_draft", table,
                      "Draft not in virtual filesystem")
        ELSE LET draft_content == fs[draft_key].text
             IN  persist_artifact("save_chapter_draft", table, available,
                                  chapter_id, draft_content,
                                  Len(draft_content))

save_chapter_transcript(fs, table, available, chapter_id, chapter_number) ==
    LET transcript_key == file_key(chapter_number, "transcript.txt")
    IN  IF transcript_key \notin DOMAIN fs
        THEN NotSaved("save_chapter_transcript", table,
                      "Transcript not in virtual filesystem")
        ELSE LET transcript == fs[transcript_key].text
             IN  persist_artifact("save_chapter_transcript", table,
                                  available, chapter_id, transcript,
                                  Len(transcript))

save_hitl_clarifications(fs, table, available, chapter_id, chapter_number) ==
    LET clarifications_key == file_key(chapter_number, "clarifications.json")
    IN  IF clarifications_key \notin DOMAIN fs
        THEN Saved("save_hitl_clarifications", table, 0)
        ELSE LET loaded == json_loads(fs[clarifications_key])
             IN  IF loaded.raised # "none"
                 THEN NotSaved("save_hitl_clarifications", table,
                               "JSONDecodeError")
                 ELSE persist_artifact("save_hitl_clarifications", table,
                                       available, chapter_id, loaded.value,
                                       Len(loaded.value))

\* the test of gap_analysis with the texts as written
covers_case_sensitive(transcript, topic) == contains(transcript, topic)

\* "topic.lower() not in transcript.lower()", negated
covers(transcript, topic) == contains(lower(transcript), lower(topic))

\* chapter_plan.get("key_topics", [])
key_topics(chapter_plan) ==
    IF "key_topics" \in DOMAIN chapter_plan THEN chapter_plan.key_topics
    ELSE <<>>

\* the dict gap_analysis returns on an error ("error" is "" when the dict
\* has no such key)
gap_error(error) ==
    [tool |-> "gap_analysis", error |-> error, missing_topics |-> <<>>,
     new_topics |-> <<>>, found |-> <<0, 0>>, chapter_number |-> 0]

\* gap_data: the topics, the two counts of the summary, the chapter
gap_data(missing_topics, new_topics, chapter_number) ==
    [missing_topics |-> missing_topics, new_topics |-> new_topics,
     found |-> <<Len(missing_topics), Len(new_topics)>>,
     chapter_number |-> chapter_number]

\* files[key] = content
write(fs, key, content) ==
    [k \in DOMAIN fs \cup {key} |-> IF k = key THEN content ELSE fs[k]]

\* gap_analysis: the virtual filesystem it leaves and the dict it returns
gap_analysis(fs, transcript, chapter_number) ==
    LET chapter_plan_key == file_key(chapter_number, "plan.json")
    IN  IF chapter_plan_key \notin DOMAIN fs
        THEN [files |-> fs, out |-> gap_error("Chapter plan not found")]
        ELSE LET loaded == json_loads(fs[chapter_plan_key])
                 plan_topics == key_topics(loaded.value)
                 missing_topics ==
                     SelectSeq(plan_topics,
                               LAMBDA topic : ~covers(transcript, topic))
                 new_topics == <<>>
                 data == gap_data(missing_topics, new_topics, chapter_number)
                 with_transcript ==
                     write(fs, file_key(chapter_number, "transcript.txt"),
                           Text(transcript))
             IN  IF loaded.raised # "none"
                 THEN [files |-> fs,
                       out |-> gap_error("Invalid chapter plan JSON")]
                 ELSE [files |-> write(with_transcript,
                                       file_key(chapter_number, "gaps.json"),
                                       json_dumps(data)),
                       out |-> [tool |-> "gap_analysis", error |-> ""]
                                  @@ data]

----------------------------------------------------------------------------
(* What the environment supplies: user texts, model replies, thread ids    *)

TitleText == <<"D", "r", "a", "f", "t", " ", "O", "n", "e">>
NameText == <<"A", "n", "n", " ", "L", "e", "e">>
LongText ==
    <<"b", "u", "s", "y", " ", "p", "a", "r", "e", "n", "t", "s", " ", "w", "h", "o", " ", "w", "a", "n", "t", " ", "c", "a", "l", "m", " ", "a", "t", " ", "h", "o", "m", "e">>
MidText == <<"b", "o", "a", "t", "s", " ", "a", "n", "d", " ", "t", "h", "e", " ", "s", "e", "a">>
NoText == <<"n", "o">>
YesText == <<"y", "e", "s">>
PickText == <<"I", " ", "p", "i", "c", "k", " ", "2">>
DoneText == <<"f", "i", "n", "i", "s", "h", "e", "d">>
EmptyText == <<>>
BlankText == <<" ">>

ShortReply == <<"N", "o", "t", "e", "d", ".">>
LongReply == [i \in 1..(PlanMinChars + 1) |-> "x"]

UserTexts ==
    {TitleText, LongText, MidText, NoText, YesText, PickText, DoneText,
     EmptyText, BlankText}

\* what one graph.invoke receives under "messages": the new user message, or
\* two user messages sent together
Inputs ==
    {<<HumanMessage(c)>> : c \in UserTexts}
        \cup {<<HumanMessage(MidText), HumanMessage(LongText)>>}

Replies == {ShortReply, LongReply}

\* one conversation that walks the whole pipeline, turn by turn
Conversation ==
    << <<(<<HumanMessage(TitleText)>>), ShortReply>>,
       <<(<<HumanMessage(NameText)>>), ShortReply>>,
       <<(<<HumanMessage(LongText)>>), ShortReply>>,
       <<(<<HumanMessage(MidText)>>), ShortReply>>,
       <<(<<HumanMessage(LongText)>>), ShortReply>>,
       <<(<<HumanMessage(LongText)>>), ShortReply>>,
       <<(<<HumanMessage(LongText)>>), ShortReply>>,
       <<(<<HumanMessage(NoText)>>), ShortReply>>,
       <<(<<HumanMessage(LongText)>>), LongReply>>,
       <<(<<HumanMessage(YesText)>>), ShortReply>>,
       <<(<<HumanMessage(LongText)>>), ShortReply>>,
       <<(<<HumanMessage(DoneText)>>), ShortReply>> >>

\* the same conversation with title suggestions accepted in the title stage
Suggestions ==
    SubSeq(Conversation, 1, 7)
        \o << <<(<<HumanMessage(YesText)>>), LongReply>>,
              <<(<<HumanMessage(PickText)>>), ShortReply>> >>

\* the turns already played on a thread when the exploration starts: every
\* second prefix of the conversation, and the two turns of the title stage
\* with suggestions accepted
Scripts ==
    {SubSeq(Conversation, 1, 2 * k) : k \in 0..(Len(Conversation) \div 2)}
        \cup {SubSeq(Suggestions, 1, k) : k \in 8..Len(Suggestions)}

----------------------------------------------------------------------------
(* Turns, one graph step at a time                                         *)

MaxTurns == 2

NoCheckpoints == [t \in {} |-> EmptyState]

NoTurn ==
    [status |-> "none", prior |-> EmptyState, base |-> EmptyState,
     input |-> <<>>, nodes |-> <<>>, called |-> <<>>, streamed |-> FALSE,
     prompt |-> <<>>, stored |-> <<>>, error |-> "none",
     route |-> "biographer", target |-> "END"]

\* graph.invoke / graph.stream(update, thread_id): load the checkpoint,
\* apply the input update, checkpoint it, and select the entry node; when
\* the route is no key of the entry mapping the call raises; when streamed,
\* event_generator sees the value of the state after the input
Enter(t, update, streamed) ==
    /\ next[t] = "END"
    /\ budget[t] > 0
    /\ LET base == resume(store, thread[t])
           entered == ApplyUpdate(base, update)
           route == route_entry(entered)
           target == entry_target(route)
       IN  /\ store' = persist(store, thread[t], entered)
           /\ local' = [local EXCEPT ![t] =
                  IF target \in Nodes THEN entered ELSE EmptyState]
           /\ next' = [next EXCEPT ![t] =
                  IF target \in Nodes THEN target ELSE "END"]
           /\ turn' = [turn EXCEPT ![t] =
                  [status |-> CASE target \in Nodes -> "running"
                                [] target = "END" -> "done"
                                [] OTHER -> "failed",
                   prior |-> committed[t], base |-> base,
                   input |-> update.messages,
                   nodes |-> <<>>, called |-> <<>>,
                   streamed |-> streamed, prompt |-> <<>>,
                   stored |-> <<>>,
                   error |-> IF target = "KeyError" THEN "route"
                             ELSE "none",
                   route |-> route, target |-> target]]
           /\ committed' = IF target \in Nodes THEN committed
                           ELSE [committed EXCEPT ![t] = entered]
           /\ events' = [events EXCEPT ![t] =
                  IF streamed
                  THEN message_events(entered.messages, thread[t])
                         \o (CASE target \in Nodes -> <<>>
                               [] target = "END" ->
                                      <<done_event(thread[t])>>
                               [] OTHER -> <<error_event>>)
                  ELSE <<>>]
    /\ budget' = [budget EXCEPT ![t] = @ - 1]
    /\ UNCHANGED <<thread, prompts, cache, process_vars, tool_vars>>

\* the input of the chat routes: {"messages": input}
Begin(t, input, streamed) == Enter(t, [messages |-> input], streamed)

\* POST /chat: orchestrator.invoke
BeginTurn(t, input) == Begin(t, input, FALSE)

\* POST /chat/stream: orchestrator.stream(stream_mode="values")
BeginStream(t, input) == Begin(t, input, TRUE)

\* the state a node step leaves, and the bookkeeping of that step: the
\* update is applied to the channel values of the running graph, which are
\* then checkpointed under the thread_id
Step(t, cmd) ==
    LET after == ApplyUpdate(local[t], cmd.update)
    IN  /\ store' = persist(store, thread[t], after)
        /\ local' = [local EXCEPT ![t] =
               IF cmd.goto = "END" THEN EmptyState ELSE after]
        /\ next' = [next EXCEPT ![t] = cmd.goto]
        /\ turn' = [turn EXCEPT
               ![t].nodes = Append(@, next[t]),
               ![t].called = Append(@, cmd.called),
               ![t].status = IF cmd.goto = "END" THEN "done" ELSE @,
               ![t].prompt =
                   IF cmd.called
                   THEN system_prompt(next[t],
                            cache_after(next[t], cache, prompts).configs)
                   ELSE @,
               ![t].stored =
                   IF cmd.called THEN table_prompt(next[t], prompts) ELSE @]
        /\ cache' = cache_after(next[t], cache, prompts)
        /\ committed' = IF cmd.goto = "END"
                        THEN [committed EXCEPT ![t] = after]
                        ELSE committed
        /\ events' = [events EXCEPT ![t] =
               IF turn[t].streamed
               THEN @ \o message_events(after.messages, thread[t])
                      \o (IF cmd.goto = "END" THEN <<done_event(thread[t])>>
                          ELSE <<>>)
               ELSE @]
        /\ UNCHANGED <<budget, thread, prompts, process_vars, tool_vars>>

\* the scheduled node finds its fields complete and hands off (no model call)
HandOff(t) ==
    /\ next[t] \in Nodes
    /\ reads_configs(next[t]) => ~load_raises(cache, prompts)
    /\ LET cmd == run_node(next[t], local[t], ShortReply)
       IN  ~cmd.called /\ Step(t, cmd)

\* the scheduled node calls the model, which answers with response
Reply(t, response) ==
    /\ next[t] \in Nodes
    /\ reads_configs(next[t]) => ~load_raises(cache, prompts)
    /\ LET cmd == run_node(next[t], local[t], response)
       IN  cmd.called /\ Step(t, cmd)

\* the scheduled node calls the model and model.invoke raises: graph.invoke
\* raises, and the checkpoint stays as the last finished step left it
CompletionFails(t) ==
    /\ next[t] \in Nodes
    /\ reads_configs(next[t]) => ~load_raises(cache, prompts)
    /\ run_node(next[t], local[t], ShortReply).called
    /\ next' = [next EXCEPT ![t] = "END"]
    /\ turn' = [turn EXCEPT
           ![t].nodes = Append(@, next[t]),
           ![t].called = Append(@, TRUE),
           ![t].status = "failed",
           ![t].error = "completion",
           ![t].prompt = system_prompt(next[t],
                             cache_after(next[t], cache, prompts).configs),
           ![t].stored = table_prompt(next[t], prompts)]
    /\ cache' = cache_after(next[t], cache, prompts)
    /\ committed' = [committed EXCEPT ![t] = resume(store, thread[t])]
    /\ events' = [events EXCEPT ![t] =
           IF turn[t].streamed THEN Append(@, error_event) ELSE @]
    /\ local' = [local EXCEPT ![t] = EmptyState]
    /\ UNCHANGED <<store, budget, thread, prompts, process_vars, tool_vars>>

\* the scheduled node calls get_agent_configs(), the cache is None and the
\* database cannot be reached: load_agent_configs raises out of the node, so
\* graph.invoke raises before any model call; the cache stays None
ConfigLoadFails(t) ==
    /\ next[t] \in Nodes
    /\ reads_configs(next[t])
    /\ load_raises(cache, prompts)
    /\ next' = [next EXCEPT ![t] = "END"]
    /\ turn' = [turn EXCEPT
           ![t].nodes = Append(@, next[t]),
           ![t].called = Append(@, FALSE),
           ![t].status = "failed",
           ![t].error = "configs"]
    /\ committed' = [committed EXCEPT ![t] = resume(store, thread[t])]
    /\ events' = [events EXCEPT ![t] =
           IF turn[t].streamed THEN Append(@, error_event) ELSE @]
    /\ local' = [local EXCEPT ![t] = EmptyState]
    /\ UNCHANGED <<store, budget, thread, prompts, cache, process_vars, tool_vars>>

\* model.invoke calls made so far in the turn of thread t
Calls(t) == Cardinality({i \in 1..Len(turn[t].called) : turn[t].called[i]})

AtRest ==
    /\ next = [t \in ThreadIds |-> "END"]
    /\ turn = [t \in ThreadIds |-> NoTurn]
    /\ committed = [t \in ThreadIds |-> resume(store, thread[t])]
    /\ events = [t \in ThreadIds |-> <<>>]
    /\ local = [t \in ThreadIds |-> EmptyState]
    /\ singletons = NoSingletons
    /\ caller = [c \in Callers |-> NoCall]
    /\ made = NoneMade
    /\ session = NoSession
    /\ chapters = NoChapters
    /\ files = NoFiles
    /\ outcome = NoResult

\* every request carries the thread_id of its own name
OwnThreads == thread = [t \in ThreadIds |-> t]

\* the table is seeded and reachable; a process that has run turns has its
\* cache loaded from it, a process that has run none has not
Seeded(script) ==
    /\ prompts = [available |-> TRUE, rows |-> SeededRows, retired |-> {}]
    /\ cache = IF script = <<>> THEN NoCache
               ELSE get_agent_configs(NoCache, prompts)

\* thread "a" has played some prefix of the conversation; "b" is unused
Init ==
    /\ \E script \in Scripts :
          /\ store = IF script = <<>> THEN NoCheckpoints
                     ELSE [t \in {"a"} |-> replay(EmptyState, script)]
          /\ Seeded(script)
    /\ OwnThreads
    /\ AtRest
    /\ budget = [t \in ThreadIds |-> IF t = "a" THEN MaxTurns ELSE 0]

Next ==
    \E t \in ThreadIds :
        \/ \E input \in Inputs : BeginTurn(t, input)
        \/ HandOff(t)
        \/ \E response \in Replies : Reply(t, response)
        \/ CompletionFails(t)

Spec == Init /\ [][Next]_vars

----------------------------------------------------------------------------
(* A new conversation, from its first message                              *)

MaxFreshTurns == 5

Answers == {<<HumanMessage(c)>> : c \in {NameText, MidText, LongText}}

InitFresh ==
    /\ store = NoCheckpoints
    /\ Seeded(<<>>)
    /\ OwnThreads
    /\ AtRest
    /\ budget = [t \in ThreadIds |-> IF t = "a" THEN MaxFreshTurns ELSE 0]

NextFresh ==
    \E t \in ThreadIds :
        \/ \E input \in Answers : BeginTurn(t, input)
        \/ HandOff(t)
        \/ Reply(t, ShortReply)
        \/ CompletionFails(t)

SpecFresh == InitFresh /\ [][NextFresh]_vars

----------------------------------------------------------------------------
(* Two conversations sharing one checkpointer                              *)

MaxThreadTurns == 2

ThreadInputs == {<<HumanMessage(c)>> : c \in {NameText, LongText}}

\* thread "a" is new or has finished profiling; thread "b" is new
InitThreads ==
    /\ \E script \in {<<>>, SubSeq(Conversation, 1, 4)} :
          /\ store = IF script = <<>> THEN NoCheckpoints
                     ELSE [t \in {"a"} |-> replay(EmptyState, script)]
          /\ Seeded(script)
    /\ OwnThreads
    /\ AtRest
    /\ budget = [t \in ThreadIds |-> MaxThreadTurns]

NextThreads ==
    \E t \in ThreadIds :
        \/ \E input \in ThreadInputs : BeginTurn(t, input)
        \/ HandOff(t)
        \/ Reply(t, ShortReply)
        \/ CompletionFails(t)

SpecThreads == InitThreads /\ [][NextThreads]_vars

----------------------------------------------------------------------------
(* Turns delivered through the streaming route                             *)

MaxStreamTurns == 2

StreamInputs == {<<HumanMessage(c)>> : c \in {LongText, DoneText}}

\* thread "a" has played some prefix of the conversation that ends where a
\* stage has its fields complete, or is new
InitStream ==
    /\ \E script \in {SubSeq(Conversation, 1, k) : k \in {0, 4, 7, 10}} :
          /\ store = IF script = <<>> THEN NoCheckpoints
                     ELSE [t \in {"a"} |-> replay(EmptyState, script)]
          /\ Seeded(script)
    /\ OwnThreads
    /\ AtRest
    /\ budget = [t \in ThreadIds |-> IF t = "a" THEN MaxStreamTurns ELSE 0]

NextStream ==
    \E t \in ThreadIds :
        \/ \E input \in StreamInputs : BeginStream(t, input)
        \/ HandOff(t)
        \/ \E response \in Replies : Reply(t, response)
        \/ CompletionFails(t)

SpecStream == InitStream /\ [][NextStream]_vars

----------------------------------------------------------------------------
(* Two requests carrying the same thread_id                                *)

MaxRaceTurns == 1

RaceInputs == {<<HumanMessage(c)>> : c \in {NameText, LongText}}

\* both requests carry thread_id "a", which is new or has finished profiling
InitRace ==
    /\ \E script \in {<<>>, SubSeq(Conversation, 1, 4)} :
          /\ store = IF script = <<>> THEN NoCheckpoints
                     ELSE [t \in {"a"} |-> replay(EmptyState, script)]
          /\ Seeded(script)
    /\ thread = [t \in ThreadIds |-> "a"]
    /\ AtRest
    /\ budget = [t \in ThreadIds |-> MaxRaceTurns]

\* a request that holds the event loop: chat calls orchestrator.invoke
\* without awaiting, so it runs to its end; event_generator gives the loop
\* back only where it yields an event, which it first does after a node step
Holding(t) ==
    /\ turn[t].status = "running"
    /\ ~turn[t].streamed \/ turn[t].nodes = <<>>

\* request t may run: no other request holds the event loop
Free(t) == \A u \in ThreadIds \ {t} : ~Holding(u)

NextRace ==
    \E t \in ThreadIds :
        \/ \E input \in RaceInputs : Free(t) /\ BeginTurn(t, input)
        \/ \E input \in RaceInputs : Free(t) /\ BeginStream(t, input)
        \/ Free(t) /\ HandOff(t)
        \/ Free(t) /\ Reply(t, ShortReply)
        \/ Free(t) /\ CompletionFails(t)

SpecRace == InitRace /\ [][NextRace]_vars

----------------------------------------------------------------------------
(* Turns of one conversation while the agent_prompts table changes         *)

MaxPromptTurns == 2

PromptInputs == {<<HumanMessage(c)>> : c \in {NameText, LongText}}

\* no turn is running
BetweenTurns == \A t \in ThreadIds : next[t] = "END"

\* between two turns a new prompt text becomes the active row of an agent,
\* the row that was active is deactivated
\* (AgentPromptRepository.create_prompt)
UpdatePrompt(name, text) ==
    /\ BetweenTurns
    /\ prompts.available
    /\ ~(name \in DOMAIN prompts.rows /\ prompts.rows[name] = text)
    /\ prompts' = [prompts EXCEPT
           !.rows = [n \in DOMAIN prompts.rows \cup {name} |->
                        IF n = name THEN text ELSE prompts.rows[n]],
           !.retired = IF name \in DOMAIN prompts.rows
                       THEN @ \cup {[agent_name |-> name,
                                     prompt_content |-> prompts.rows[name]]}
                       ELSE @]
    /\ UNCHANGED <<store, next, turn, committed, budget, events, local,
                   thread, cache, process_vars, tool_vars>>

\* between two turns the database becomes unreachable, or reachable again
StoreDown ==
    /\ BetweenTurns
    /\ prompts.available
    /\ prompts' = [prompts EXCEPT !.available = FALSE]
    /\ UNCHANGED <<store, next, turn, committed, budget, events, local,
                   thread, cache, process_vars, tool_vars>>

StoreUp ==
    /\ BetweenTurns
    /\ ~prompts.available
    /\ prompts' = [prompts EXCEPT !.available = TRUE]
    /\ UNCHANGED <<store, next, turn, committed, budget, events, local,
                   thread, cache, process_vars, tool_vars>>

\* a process that has run no turn, with the table empty or seeded and
\* thread "a" new; or a process in which thread "a" has finished profiling,
\* its cache loaded from the seeded table
InitPrompts ==
    /\ OwnThreads
    /\ \/ /\ store = NoCheckpoints
          /\ \E rows \in {NoRows, SeededRows} :
                prompts = [available |-> TRUE, rows |-> rows,
                           retired |-> {}]
          /\ cache = NoCache
       \/ /\ store = [t \in {"a"} |->
                         replay(EmptyState, SubSeq(Conversation, 1, 4))]
          /\ Seeded(SubSeq(Conversation, 1, 4))
    /\ AtRest
    /\ budget = [t \in ThreadIds |-> IF t = "a" THEN MaxPromptTurns ELSE 0]

NextPrompts ==
    \/ \E t \in ThreadIds :
           \/ \E input \in PromptInputs : BeginTurn(t, input)
           \/ HandOff(t)
           \/ Reply(t, ShortReply)
           \/ CompletionFails(t)
           \/ ConfigLoadFails(t)
    \/ \E text \in PromptTexts : UpdatePrompt(BiographerName, text)
    \/ StoreDown
    \/ StoreUp

SpecPrompts == InitPrompts /\ [][NextPrompts]_vars

----------------------------------------------------------------------------
(* Turns whose input carries a stage                                       *)

MaxRouteTurns == 2

RouteInputs == {<<HumanMessage(c)>> : c \in {LongText, NoText}}

\* the stage values a caller passes: the keys of the entry mapping, and the
\* name the profiling stage has outside this module
RouteStages == Nodes \cup {"complete", "profiling"}

\* graph.invoke({"messages": input, "stage": stage}, thread_id)
BeginAt(t, input, stage) ==
    Enter(t, [messages |-> input, stage |-> stage], FALSE)

InitRoute ==
    /\ \E script \in {<<>>, SubSeq(Conversation, 1, 4)} :
          /\ store = IF script = <<>> THEN NoCheckpoints
                     ELSE [t \in {"a"} |-> replay(EmptyState, script)]
          /\ Seeded(script)
    /\ OwnThreads
    /\ AtRest
    /\ budget = [t \in ThreadIds |-> IF t = "a" THEN MaxRouteTurns ELSE 0]

NextRoute ==
    \E t \in ThreadIds :
        \/ \E input \in RouteInputs : BeginTurn(t, input)
        \/ \E input \in RouteInputs, stage \in RouteStages :
               BeginAt(t, input, stage)
        \/ HandOff(t)
        \/ Reply(t, ShortReply)
        \/ CompletionFails(t)

SpecRoute == InitRoute /\ [][NextRoute]_vars

----------------------------------------------------------------------------
(* Turns of one conversation across a restart of the process               *)

MaxRestartTurns == 2

RestartInputs == {<<HumanMessage(c)>> : c \in {NameText, LongText}}

\* the process starts again between two turns: the MemorySaver that
\* create_multi_agent_graph builds is new and holds no checkpoint, and the
\* module globals are None again; what was persisted can no longer be read
Restart ==
    /\ BetweenTurns
    /\ store # NoCheckpoints
    /\ store' = NoCheckpoints
    /\ cache' = NoCache
    /\ singletons' = NoSingletons
    /\ UNCHANGED <<next, turn, committed, budget, events, local, thread,
                   prompts, caller, made, tool_vars>>

InitRestart ==
    /\ \E script \in {<<>>, SubSeq(Conversation, 1, 4)} :
          /\ store = IF script = <<>> THEN NoCheckpoints
                     ELSE [t \in {"a"} |-> replay(EmptyState, script)]
          /\ Seeded(script)
    /\ OwnThreads
    /\ AtRest
    /\ budget = [t \in ThreadIds |-> IF t = "a" THEN MaxRestartTurns ELSE 0]

NextRestart ==
    \/ \E t \in ThreadIds :
           \/ \E input \in RestartInputs : BeginTurn(t, input)
           \/ HandOff(t)
           \/ Reply(t, ShortReply)
           \/ CompletionFails(t)
    \/ Restart

SpecRestart == InitRestart /\ [][NextRestart]_vars

----------------------------------------------------------------------------
(* Requests as they arrive at POST /chat: the body before validation       *)

MaxPayloadTurns == 2

\* the bodies a client posts for thread_id id: well-formed ones with one user
\* message, and bodies without messages, with an item that lacks content, or
\* with nothing at all
WellFormed(id) ==
    {[messages |-> <<[role |-> "user", content |-> c]>>, thread_id |-> id] :
        c \in {NameText, LongText}}
Malformed(id) ==
    { [thread_id |-> id],
      [messages |-> <<[role |-> "user"]>>, thread_id |-> id],
      [k \in {} |-> id] }
Payloads(id) == WellFormed(id) \cup Malformed(id)

\* the body fails validation: FastAPI answers 422 and chat is never called
Reject(t) ==
    /\ next[t] = "END"
    /\ budget[t] > 0
    /\ turn' = [turn EXCEPT ![t] =
           [NoTurn EXCEPT !.status = "rejected", !.error = "validation"]]
    /\ budget' = [budget EXCEPT ![t] = @ - 1]
    /\ UNCHANGED <<store, next, committed, events, local, thread, prompts,
                   cache, process_vars, tool_vars>>

\* POST /chat with a body: validation, then chat
Post(t, payload) ==
    IF ChatRequest(payload)
    THEN BeginTurn(t, langgraph_messages(payload))
    ELSE Reject(t)

InitPayload ==
    /\ \E script \in {<<>>, SubSeq(Conversation, 1, 4)} :
          /\ store = IF script = <<>> THEN NoCheckpoints
                     ELSE [t \in {"a"} |-> replay(EmptyState, script)]
          /\ Seeded(script)
    /\ OwnThreads
    /\ AtRest
    /\ budget = [t \in ThreadIds |-> MaxPayloadTurns]

NextPayload ==
    \E t \in ThreadIds :
        \/ \E payload \in Payloads(thread[t]) : Post(t, payload)
        \/ HandOff(t)
        \/ Reply(t, ShortReply)
        \/ CompletionFails(t)

SpecPayload == InitPayload /\ [][NextPayload]_vars

----------------------------------------------------------------------------
(* Calls of get_orchestrator while the agent_prompts table changes         *)

MaxOrchestratorCalls == 2

\* the variables of the graph and its requests
graph_vars == <<store, next, turn, committed, budget, events, local, thread>>

\* caller c calls get_orchestrator(), as chat and chat_stream do first; the
\* call runs without giving the event loop back
GetOrchestrator(c) ==
    /\ caller[c].pc = "idle"
    /\ caller[c].calls < MaxOrchestratorCalls
    /\ LET got == get_orchestrator(singletons.orchestrator, prompts)
           creates == singletons.orchestrator = NoOrchestrator
       IN  /\ singletons' = [singletons EXCEPT !.orchestrator = got.global]
           /\ caller' = [caller EXCEPT ![c] =
                  [@ EXCEPT !.fn = "get_orchestrator",
                            !.raised = got.raised,
                            !.orchestrator = got.value,
                            !.loaded = IF creates
                                       THEN load_active_subagents(prompts)
                                       ELSE Raised("not called"),
                            !.calls = @ + 1]]
           /\ made' = [made EXCEPT !.orchestrator =
                  IF creates THEN @ + 1 ELSE @]
    /\ UNCHANGED <<graph_vars, tool_vars, prompts, cache>>

\* a process that has made no call, with the table empty or seeded
InitOrchestrator ==
    /\ store = NoCheckpoints
    /\ \E rows \in {NoRows, SeededRows} :
          prompts = [available |-> TRUE, rows |-> rows, retired |-> {}]
    /\ cache = NoCache
    /\ OwnThreads
    /\ AtRest
    /\ budget = [t \in ThreadIds |-> 0]

NextOrchestrator ==
    \/ \E c \in Callers : GetOrchestrator(c)
    \/ \E text \in PromptTexts : UpdatePrompt(BiographerName, text)
    \/ StoreDown
    \/ StoreUp

SpecOrchestrator == InitOrchestrator /\ [][NextOrchestrator]_vars

----------------------------------------------------------------------------
(* Callers of get_model and get_agent_configs, one statement at a time     *)

MaxGetterCalls == 2

\* "if <global> is None": a caller that finds the global set returns it; one
\* that finds it None goes on to construct
GetModelTest(c) ==
    /\ caller[c].pc = "idle"
    /\ caller[c].calls < MaxGetterCalls
    /\ caller' = [caller EXCEPT ![c] =
           IF singletons.model_instance # 0
           THEN [@ EXCEPT !.fn = "get_model", !.raised = "none",
                          !.model = singletons.model_instance,
                          !.calls = @ + 1]
           ELSE [@ EXCEPT !.fn = "get_model", !.raised = "none",
                          !.pc = "constructing"]]
    /\ UNCHANGED <<graph_vars, tool_vars, prompts, cache, singletons, made>>

\* "_model_instance = ChatAnthropic(...)"
GetModelConstruct(c) ==
    /\ caller[c].pc = "constructing"
    /\ caller[c].fn = "get_model"
    /\ made' = [made EXCEPT !.model_instance = @ + 1]
    /\ singletons' = [singletons EXCEPT
           !.model_instance = made.model_instance + 1]
    /\ caller' = [caller EXCEPT ![c].pc = "returning"]
    /\ UNCHANGED <<graph_vars, tool_vars, prompts, cache>>

\* "return _model_instance"
GetModelReturn(c) ==
    /\ caller[c].pc = "returning"
    /\ caller[c].fn = "get_model"
    /\ caller' = [caller EXCEPT ![c] =
           [@ EXCEPT !.pc = "idle", !.model = singletons.model_instance,
                     !.calls = @ + 1]]
    /\ UNCHANGED <<graph_vars, tool_vars, prompts, cache, singletons, made>>

\* "if _agent_configs_cache is None"
GetConfigsTest(c) ==
    /\ caller[c].pc = "idle"
    /\ caller[c].calls < MaxGetterCalls
    /\ caller' = [caller EXCEPT ![c] =
           IF cache_is_none(cache)
           THEN [@ EXCEPT !.fn = "get_agent_configs", !.raised = "none",
                          !.pc = "constructing"]
           ELSE [@ EXCEPT !.fn = "get_agent_configs", !.raised = "none",
                          !.configs = cache.configs, !.calls = @ + 1]]
    /\ UNCHANGED <<graph_vars, tool_vars, prompts, cache, singletons, made>>

\* "_agent_configs_cache = load_agent_configs()": the loader runs; when the
\* database cannot be reached it raises and nothing is assigned
GetConfigsLoad(c) ==
    /\ caller[c].pc = "constructing"
    /\ caller[c].fn = "get_agent_configs"
    /\ made' = [made EXCEPT !.configs = @ + 1]
    /\ IF prompts.available
       THEN /\ cache' = [loaded |-> TRUE,
                         configs |-> load_agent_configs(prompts.rows)]
            /\ caller' = [caller EXCEPT ![c].pc = "returning"]
       ELSE /\ cache' = cache
            /\ caller' = [caller EXCEPT ![c] =
                   [@ EXCEPT !.pc = "idle", !.raised = "OperationalError",
                             !.calls = @ + 1]]
    /\ UNCHANGED <<graph_vars, tool_vars, prompts, singletons>>

\* "return _agent_configs_cache"
GetConfigsReturn(c) ==
    /\ caller[c].pc = "returning"
    /\ caller[c].fn = "get_agent_configs"
    /\ caller' = [caller EXCEPT ![c] =
           [@ EXCEPT !.pc = "idle", !.configs = cache.configs,
                     !.calls = @ + 1]]
    /\ UNCHANGED <<graph_vars, tool_vars, prompts, cache, singletons, made>>

\* a process that has made no call, with the table empty or seeded
InitGetters ==
    /\ store = NoCheckpoints
    /\ \E rows \in {NoRows, SeededRows} :
          prompts = [available |-> TRUE, rows |-> rows, retired |-> {}]
    /\ cache = NoCache
    /\ OwnThreads
    /\ AtRest
    /\ budget = [t \in ThreadIds |-> 0]

NextGetters ==
    \/ \E c \in Callers :
           \/ GetModelTest(c)
           \/ GetModelConstruct(c)
           \/ GetModelReturn(c)
           \/ GetConfigsTest(c)
           \/ GetConfigsLoad(c)
           \/ GetConfigsReturn(c)
    \/ StoreDown
    \/ StoreUp

SpecGetters == InitGetters /\ [][NextGetters]_vars

----------------------------------------------------------------------------
(* Calls of the loaders while rows are created in the agent_prompts table  *)

MaxLoaderCalls == 2

\* agents that are not seeded: one that gets active rows, one that only ever
\* gets an inactive row, and one that has no row at all
ArchivistName == <<"a", "r", "c", "h", "i", "v", "i", "s", "t">>
EditorName == <<"e", "d", "i", "t", "o", "r">>
NonexistentName == <<"n", "o", "n", "e", "x", "i", "s", "t", "e", "n", "t">>

\* the names a caller asks load_subagent_by_name for
LoaderNames == {BiographerName, ArchivistName, EditorName, NonexistentName}

\* AgentPromptRepository.create_prompt(..., is_active=False): the new row is
\* added inactive and no other row changes
CreateInactive(name, text) ==
    /\ BetweenTurns
    /\ prompts.available
    /\ [agent_name |-> name, prompt_content |-> text] \notin prompts.retired
    /\ prompts' = [prompts EXCEPT
           !.retired = @ \cup {[agent_name |-> name,
                                prompt_content |-> text]}]
    /\ UNCHANGED <<store, next, turn, committed, budget, events, local,
                   thread, cache, process_vars, tool_vars>>

\* caller c calls load_active_subagents()
LoadActiveSubagents(c) ==
    /\ caller[c].pc = "idle"
    /\ caller[c].calls < MaxLoaderCalls
    /\ caller' = [caller EXCEPT ![c] =
           [@ EXCEPT !.fn = "load_active_subagents",
                     !.arg = <<>>,
                     !.loaded = load_active_subagents(prompts),
                     !.raised = load_active_subagents(prompts).raised,
                     !.calls = @ + 1]]
    /\ UNCHANGED <<graph_vars, tool_vars, prompts, cache, singletons, made>>

\* caller c calls load_subagent_by_name(agent_name)
LoadSubagentByName(c, agent_name) ==
    /\ caller[c].pc = "idle"
    /\ caller[c].calls < MaxLoaderCalls
    /\ caller' = [caller EXCEPT ![c] =
           [@ EXCEPT !.fn = "load_subagent_by_name",
                     !.arg = agent_name,
                     !.loaded = load_subagent_by_name(prompts, agent_name),
                     !.raised =
                         load_subagent_by_name(prompts, agent_name).raised,
                     !.calls = @ + 1]]
    /\ UNCHANGED <<graph_vars, tool_vars, prompts, cache, singletons, made>>

\* a process that has made no call, with the table empty or seeded
InitLoader ==
    /\ store = NoCheckpoints
    /\ \E rows \in {NoRows, SeededRows} :
          prompts = [available |-> TRUE, rows |-> rows, retired |-> {}]
    /\ cache = NoCache
    /\ OwnThreads
    /\ AtRest
    /\ budget = [t \in ThreadIds |-> 0]

NextLoader ==
    \/ LoadActiveSubagents("c1")
    \/ \E agent_name \in LoaderNames : LoadSubagentByName("c1", agent_name)
    \/ \E text \in PromptTexts : UpdatePrompt(ArchivistName, text)
    \/ CreateInactive(EditorName, <<"v1">>)

SpecLoader == InitLoader /\ [][NextLoader]_vars

----------------------------------------------------------------------------
(* The title stage, from the turn that enters it                           *)

MaxTitleTurns == 3

\* an answer with both vocabularies and a number
BothText == <<"n", "o", " ", "y", "e", "s", " ", "2">>

TitleInputs ==
    {<<HumanMessage(c)>> :
        c \in {YesText, NoText, BothText, PickText, LongText}}

\* thread "a" has its audience profile and has not entered the title stage
InitTitle ==
    /\ store = [t \in {"a"} |->
                    replay(EmptyState, SubSeq(Conversation, 1, 7))]
    /\ Seeded(SubSeq(Conversation, 1, 7))
    /\ OwnThreads
    /\ AtRest
    /\ budget = [t \in ThreadIds |-> IF t = "a" THEN MaxTitleTurns ELSE 0]

NextTitle ==
    \E t \in ThreadIds :
        \/ \E input \in TitleInputs : BeginTurn(t, input)
        \/ HandOff(t)
        \/ Reply(t, ShortReply)
        \/ CompletionFails(t)

SpecTitle == InitTitle /\ [][NextTitle]_vars

----------------------------------------------------------------------------
(* The planning stage, from the turn that enters it                        *)

MaxPlanTurns == 3

\* an approval in capitals, and a second reply of more than 100 characters
ApproveText == <<"L", "o", "o", "k", "s", " ", "g", "o", "o", "d">>
PlanReply == [i \in 1..(PlanMinChars + 1) |-> "p"]

PlanInputs == {<<HumanMessage(c)>> : c \in {YesText, ApproveText, LongText}}

PlanReplies == {ShortReply, PlanReply}

\* thread "a" is about to leave the title stage: with suggestions declined
\* and short replies only, or with a list of suggestions in its history
InitPlan ==
    /\ \E script \in {SubSeq(Conversation, 1, 8), Suggestions} :
          /\ store = [t \in {"a"} |-> replay(EmptyState, script)]
          /\ Seeded(script)
    /\ OwnThreads
    /\ AtRest
    /\ budget = [t \in ThreadIds |-> IF t = "a" THEN MaxPlanTurns ELSE 0]

NextPlan ==
    \E t \in ThreadIds :
        \/ \E input \in PlanInputs : BeginTurn(t, input)
        \/ HandOff(t)
        \/ \E response \in PlanReplies : Reply(t, response)
        \/ CompletionFails(t)

SpecPlan == InitPlan /\ [][NextPlan]_vars

----------------------------------------------------------------------------
(* The writing stage, from the turn that enters it                         *)

MaxWriterTurns == 3

\* a completion keyword in capitals, and a message about something that is
\* not finished
CapitalsText == <<"A", "l", "l", " ", "C", "O", "M", "P", "L", "E", "T", "E">>
UnfinishedText == <<"u", "n", "f", "i", "n", "i", "s", "h", "e", "d">>

WriterInputs ==
    {<<HumanMessage(c)>> :
        c \in {DoneText, CapitalsText, UnfinishedText, LongText, EmptyText}}

\* thread "a" has an approved plan: the planner has not yet handed off, or
\* the writer has answered once
InitWriter ==
    /\ \E script \in {SubSeq(Conversation, 1, 10), SubSeq(Conversation, 1, 11)} :
          /\ store = [t \in {"a"} |-> replay(EmptyState, script)]
          /\ Seeded(script)
    /\ OwnThreads
    /\ AtRest
    /\ budget = [t \in ThreadIds |-> IF t = "a" THEN MaxWriterTurns ELSE 0]

NextWriter ==
    \E t \in ThreadIds :
        \/ \E input \in WriterInputs : BeginTurn(t, input)
        \/ HandOff(t)
        \/ \E response \in Replies : Reply(t, response)
        \/ CompletionFails(t)

SpecWriter == InitWriter /\ [][NextWriter]_vars

----------------------------------------------------------------------------
(* Calls of create_prompt on one session                                   *)

MaxTableCalls == 3

\* every variable of the graph and of the process in its initial state
Unused ==
    /\ store = NoCheckpoints
    /\ Seeded(<<>>)
    /\ OwnThreads
    /\ AtRest
    /\ budget = [t \in ThreadIds |-> 0]

\* repo.create_prompt(agent_name, ..., prompt_content, is_active=...)
CreatePrompt(agent_name, prompt_content, is_active) ==
    /\ session.calls < MaxTableCalls
    /\ session' = create_prompt(session, agent_name, prompt_content,
                                is_active)
    /\ UNCHANGED <<graph_vars, prompts, cache, process_vars, chapters, files,
                   outcome>>

\* session.commit(), as seed_agents does after each prompt
Commit ==
    /\ session.new # <<>>
    /\ session' = commit(session)
    /\ UNCHANGED <<graph_vars, prompts, cache, process_vars, chapters, files,
                   outcome>>

\* session.rollback()
Rollback ==
    /\ session.new # <<>> \/ session.rows # session.committed
    /\ session' = rollback(session)
    /\ UNCHANGED <<graph_vars, prompts, cache, process_vars, chapters, files,
                   outcome>>

InitTable == Unused

NextTable ==
    \/ \E agent_name \in {BiographerName, EmpathName},
          prompt_content \in PromptTexts, is_active \in BOOLEAN :
           CreatePrompt(agent_name, prompt_content, is_active)
    \/ Commit
    \/ Rollback

SpecTable == InitTable /\ [][NextTable]_vars

----------------------------------------------------------------------------
(* Calls of the persistence tools                                          *)

MaxToolCalls == 2

\* the id of the chapter of the table, the same id as a caller writes it, an
\* id of no chapter, and a text that is no UUID
KnownId == [i \in 1..32 |-> "a"]
KnownText ==
    [i \in 1..36 |-> IF i \in {9, 14, 19, 24} THEN "-" ELSE "A"]
UnknownText == [i \in 1..32 |-> "b"]
NoUuidText == <<"c", "h", "a", "p", "t", "e", "r", "-", "1">>

ChapterIds == {KnownText, UnknownText, NoUuidText}
ChapterNumbers == {1, 2}

\* what the agents write for chapter 1
Written ==
    {<<"draft.md", Text(LongText)>>, <<"transcript.txt", Text(MidText)>>,
     <<"clarifications.json", json_dumps(<<LongText, MidText>>)>>,
     <<"clarifications.json", Text(NoText)>>}

\* write_file of an agent: a new file in state["files"]
WriteFile(chapter_number, suffix, content) ==
    /\ file_key(chapter_number, suffix) \notin DOMAIN files
    /\ files' = files @@ (file_key(chapter_number, suffix) :> content)
    /\ UNCHANGED <<graph_vars, prompts, cache, process_vars, session,
                   chapters, outcome>>

\* ChapterRepository.create_chapters and the commit of its caller
CreateChapters ==
    /\ chapters = NoChapters
    /\ prompts.available
    /\ chapters' = (KnownId :> Chapter)
    /\ UNCHANGED <<graph_vars, prompts, cache, process_vars, session, files,
                   outcome>>

\* a tool call: the table is left as the tool committed it and the dict is
\* handed back; state["files"] and the checkpoints are not written
ToolCall(call) ==
    /\ outcome.calls < MaxToolCalls
    /\ chapters' = call.table
    /\ outcome' = call.out @@ [calls |-> outcome.calls + 1]
    /\ UNCHANGED <<graph_vars, prompts, cache, process_vars, session, files>>

SaveChapterDraft(chapter_id, chapter_number) ==
    ToolCall(save_chapter_draft(files, chapters, prompts.available,
                                chapter_id, chapter_number))

SaveChapterTranscript(chapter_id, chapter_number) ==
    ToolCall(save_chapter_transcript(files, chapters, prompts.available,
                                     chapter_id, chapter_number))

SaveHitlClarifications(chapter_id, chapter_number) ==
    ToolCall(save_hitl_clarifications(files, chapters, prompts.available,
                                      chapter_id, chapter_number))

InitTools == Unused

NextTools ==
    \/ \E w \in Written : WriteFile(1, w[1], w[2])
    \/ CreateChapters
    \/ \E chapter_id \in ChapterIds, chapter_number \in ChapterNumbers :
           \/ SaveChapterDraft(chapter_id, chapter_number)
           \/ SaveChapterTranscript(chapter_id, chapter_number)
           \/ SaveHitlClarifications(chapter_id, chapter_number)
    \/ StoreDown
    \/ StoreUp

SpecTools == InitTools /\ [][NextTools]_vars

----------------------------------------------------------------------------
(* Calls of gap_analysis                                                   *)

MaxGapCalls == 2

BoatsTopic == <<"B", "o", "a", "t", "s">>
SeaTopic == <<"t", "h", "e", " ", "S", "E", "A">>
HarbourTopic == <<"h", "a", "r", "b", "o", "u", "r">>

\* chapter plans: topics partly covered by a transcript about boats and
\* the sea, a topic listed twice, and a plan without key_topics
Plans ==
    { [title |-> TitleText,
       key_topics |-> <<HarbourTopic, BoatsTopic, SeaTopic>>],
      [title |-> TitleText,
       key_topics |-> <<HarbourTopic, LongText, HarbourTopic>>],
      [title |-> TitleText] }

\* what the planner writes for a chapter: a plan, or text that is no JSON
PlanFiles == {json_dumps(plan) : plan \in Plans} \cup {Text(NoText)}

Transcripts == {MidText, LongText, EmptyText}

\* gap_analysis(transcript, chapter_number, state)
GapAnalysis(transcript, chapter_number) ==
    /\ outcome.calls < MaxGapCalls
    /\ LET call == gap_analysis(files, transcript, chapter_number)
       IN  /\ files' = call.files
           /\ outcome' = call.out @@ [calls |-> outcome.calls + 1]
    /\ UNCHANGED <<graph_vars, prompts, cache, process_vars, session,
                   chapters>>

InitGap == Unused

NextGap ==
    \/ \E chapter_number \in ChapterNumbers, content \in PlanFiles :
           WriteFile(chapter_number, "plan.json", content)
    \/ \E transcript \in Transcripts, chapter_number \in ChapterNumbers :
           GapAnalysis(transcript, chapter_number)

SpecGap == InitGap /\ [][NextGap]_vars

----------------------------------------------------------------------------
(* Properties                                                              *)

\* the threads that are between turns and have a checkpoint
Resting == {t \in DOMAIN store : next[t] = "END"}

\* messages is the log of n turns of one user message and one model reply
\* each, the first four user messages being well-formed profiling answers
\* (title, name, bio of more than 5 words, theme of more than 3 words)
Answered(messages, n) ==
    /\ Len(messages) = 2 * n
    /\ \A i \in 1..n : /\ messages[2 * i - 1].type = "human"
                       /\ messages[2 * i].type = "ai"
    /\ n >= 4
    /\ split_len(messages[1].content) > 0
    /\ split_len(messages[3].content) > 0
    /\ split_len(messages[5].content) > BioMinWords
    /\ split_len(messages[7].content) > ThemeMinWords

FieldsVerbatim(state) ==
    /\ state.book_name = state.messages[1].content
    /\ state.author_name = state.messages[3].content
    /\ state.author_bio = state.messages[5].content
    /\ state.book_theme = state.messages[7].content

\* the log of four answered profiling turns followed by a fifth turn: user
\* message, hand-off message, model reply
FifthTurn(messages) ==
    /\ Len(messages) = 11
    /\ Answered(SubSeq(messages, 1, 8), 4)
    /\ messages[9].type = "human"
    /\ messages[10] = AIMessage(ToEmpathText)
    /\ messages[11].type = "ai"

\* C1 as stated: once exactly four well-formed profiling answers have been
\* processed, stage is empath, the active specialist is Empath and the four
\* fields hold the four texts verbatim.
C1_AfterFourReplies ==
    \A t \in Resting :
        Answered(store[t].messages, 4) =>
            /\ store[t].stage = "empath"
            /\ store[t].active_agent = "Empath"
            /\ FieldsVerbatim(store[t])

\* C1 amended: after exactly four well-formed profiling answers the four
\* fields hold the four texts verbatim while stage is still biographer with
\* Biographer active; the turn of the fifth user message hands off, leaving
\* stage empath, Empath active and the four fields unchanged.
C1_FourRepliesThenHandOff ==
    \A t \in Resting :
        /\ Answered(store[t].messages, 4) =>
              /\ store[t].stage = "biographer"
              /\ store[t].active_agent = "Biographer"
              /\ FieldsVerbatim(store[t])
        /\ FifthTurn(store[t].messages) =>
              /\ store[t].stage = "empath"
              /\ store[t].active_agent = "Empath"
              /\ FieldsVerbatim(store[t])

C1_Witness ==
    \E t \in Resting :
        /\ FifthTurn(store[t].messages)
        /\ store[t].stage = "empath"
        /\ store[t].author_bio = LongText
        /\ store[t].book_theme = MidText

\* the text-valued keys a node collects
CollectedKeys ==
    {"book_name", "author_name", "author_bio", "book_theme",
     "audience_profile", "final_title", "book_plan"}

\* the threads whose current or last turn ran at least one node
Acted == {t \in DOMAIN store : turn[t].nodes # <<>>}

DeclinedTurn(t) ==
    /\ turn[t].base.stage = "title_generator"
    /\ turn[t].base.wants_title_suggestions = "False"
    /\ ~truthy(turn[t].base.final_title)
    /\ truthy(turn[t].base.book_name)

\* C3: in the title stage with wants_title_suggestions False, final_title
\* unset and working title T, the next processed turn sets final_title to T
\* and advances stage to planner, and the node that does so makes no model
\* call: when the title node has run, final_title is T and stage is planner
\* with no model call made so far in the turn, and final_title and stage are
\* still so when the turn ends.
C3_DeclinedUsesWorkingTitle ==
    \A t \in Acted :
        DeclinedTurn(t) =>
            /\ turn[t].nodes[1] = "title_generator"
            /\ ~turn[t].called[1]
            /\ store[t].final_title = turn[t].base.book_name
            /\ store[t].stage = "planner"

C3_Witness ==
    \E t \in Resting :
        /\ DeclinedTurn(t)
        /\ turn[t].status = "done"
        /\ turn[t].nodes = <<"title_generator", "planner">>
        /\ store[t].final_title = TitleText
        /\ store[t].stage = "planner"

\* s and u agree on every collected key and on the active agent
SameFields(s, u) ==
    /\ \A k \in CollectedKeys : s[k] = u[k]
    /\ s.wants_title_suggestions = u.wants_title_suggestions
    /\ s.audience_questions_asked = u.audience_questions_asked
    /\ s.active_agent = u.active_agent

\* C4: once stage is complete every later turn routes to the terminal
\* no-op: no node is scheduled or run, no model call is made, the only
\* messages appended are the user messages of the input, and stage and every
\* collected field stay as they were.
C4_CompleteIsTerminal ==
    [][\A t \in DOMAIN store :
          store[t].stage = "complete" =>
              /\ store'[t].stage = "complete"
              /\ SameFields(store[t], store'[t])
              /\ next'[t] = "END"
              /\ \/ /\ store'[t].messages = store[t].messages
                    /\ turn'[t] = turn[t]
                 \/ /\ store'[t].messages
                          = store[t].messages \o turn'[t].input
                    /\ \A i \in 1..Len(turn'[t].input) :
                          turn'[t].input[i].type = "human"
                    /\ turn'[t].nodes = <<>>
                    /\ turn'[t].called = <<>>
                    /\ turn'[t].status = "done"]_vars

C4_Witness ==
    \E t \in Resting :
        /\ turn[t].status = "done"
        /\ turn[t].base.stage = "complete"
        /\ turn[t].input # <<>>
        /\ store[t].stage = "complete"
        /\ store[t].messages = turn[t].base.messages \o turn[t].input

StageIndex(stage) ==
    CASE stage \in {Absent, "biographer"} -> 1
      [] stage = "empath" -> 2
      [] stage = "title_generator" -> 3
      [] stage = "planner" -> 4
      [] stage = "writer" -> 5
      [] stage = "complete" -> 6

\* C6: every step leaves stage where it was or moves it to the immediate
\* successor in biographer, empath, title_generator, planner, writer,
\* complete: never backward, never over a stage.
C6_ForwardOneStage ==
    [][\A t \in DOMAIN store' :
          LET before == resume(store, t).stage
              after == store'[t].stage
          IN  \/ StageIndex(after) = StageIndex(before)
              \/ StageIndex(after) = StageIndex(before) + 1]_vars

C6_Witness ==
    \E t \in Resting :
        /\ turn[t].status = "done"
        /\ turn[t].base.stage = "writer"
        /\ store[t].stage = "complete"

\* the node after a node in the pipeline
Successor(node) ==
    CASE node = "biographer" -> "empath"
      [] node = "empath" -> "title_generator"
      [] node = "title_generator" -> "planner"
      [] node = "planner" -> "writer"
      [] node = "writer" -> "END"

\* C7: in one turn at most two nodes run: the node selected by stage at the
\* start of the turn and, only when that node handed off without calling the
\* model, its successor.
C7_AtMostTwoNodes ==
    \A t \in Acted :
        /\ Len(turn[t].nodes) <= 2
        /\ turn[t].nodes[1] = route_entry(turn[t].base)
        /\ Len(turn[t].nodes) = 2 =>
              /\ ~turn[t].called[1]
              /\ turn[t].nodes[2] = Successor(turn[t].nodes[1])

C7_Witness ==
    \E t \in Resting :
        /\ turn[t].status = "done"
        /\ turn[t].nodes = <<"empath", "title_generator">>

DisplayName(node) ==
    CASE node = "biographer" -> "Biographer"
      [] node = "empath" -> "Empath"
      [] node = "title_generator" -> "Title Generator"
      [] node = "planner" -> "Planner"
      [] node = "writer" -> "Writer"

\* C9: every update a scheduled node is about to make that writes stage also
\* writes active_agent, and in every state between turns whose stage is one
\* of the five active stages active_agent is the display name of that stage.
C9_StageAndAgentAgree ==
    /\ \A t \in DOMAIN store :
          next[t] \in Nodes =>
              \A response \in Replies :
                  LET update == run_node(next[t], store[t], response).update
                  IN  "stage" \in DOMAIN update
                          => "active_agent" \in DOMAIN update
    /\ \A t \in Resting :
          store[t].stage \in Nodes
              => store[t].active_agent = DisplayName(store[t].stage)

C9_Witness ==
    \E t \in Resting :
        /\ turn[t].status = "failed"
        /\ turn[t].nodes = <<"biographer", "empath">>
        /\ turn[t].base.active_agent = "Biographer"
        /\ store[t].stage = "empath"
        /\ store[t].active_agent = "Empath"

\* C10: once book_name, author_name, author_bio, book_theme,
\* audience_profile, final_title or book_plan is non-empty, or
\* wants_title_suggestions is True or False, no step changes or clears it.
C10_WriteOnce ==
    [][\A t \in DOMAIN store :
          /\ \A k \in CollectedKeys :
                truthy(store[t][k]) => store'[t][k] = store[t][k]
          /\ store[t].wants_title_suggestions # Absent
                => store'[t].wants_title_suggestions
                       = store[t].wants_title_suggestions]_vars

C10_Witness ==
    \E t \in Resting :
        /\ turn[t].status = "done"
        /\ turn[t].nodes = <<"biographer">>
        /\ truthy(turn[t].base.book_name)
        /\ turn[t].input = <<HumanMessage(TitleText)>>
        /\ store[t].book_name = turn[t].base.book_name
        /\ store[t].author_name = TitleText

\* the threads whose last turn was the first turn of a conversation, made of
\* one user message, and ended normally
FirstTurns ==
    {t \in Resting : /\ turn[t].status = "done"
                     /\ turn[t].base = EmptyState
                     /\ Len(turn[t].input) = 1}

\* what C11 says of the state after a first turn with user message m
TitleOnly(state, m) ==
    /\ state.book_name = m
    /\ state.stage = "biographer"
    /\ state.active_agent = "Biographer"
    /\ state.author_name = None
    /\ state.author_bio = None
    /\ state.book_theme = None

\* C11 as stated: for an empty state and any non-empty first user message m,
\* after the first turn book_name is m verbatim, stage is biographer,
\* active_agent is Biographer, and author_name, author_bio and book_theme
\* are unset.
C11_FirstMessageIsTitle ==
    \A t \in FirstTurns :
        LET m == turn[t].input[1].content
        IN  m # <<>> => TitleOnly(store[t], m)

\* C11 amended: the same for any first user message m that holds at least
\* one word (a character that is not whitespace); a message of whitespace
\* only is not stored.
C11_FirstWordedMessageIsTitle ==
    \A t \in FirstTurns :
        LET m == turn[t].input[1].content
        IN  split_len(m) > 0 => TitleOnly(store[t], m)

C11_Witness ==
    \E t \in FirstTurns :
        /\ turn[t].input = <<HumanMessage(TitleText)>>
        /\ turn[t].nodes = <<"biographer">>
        /\ TitleOnly(store[t], TitleText)

\* the completion check of a node: the fields it is responsible for are set
Complete(node, state) ==
    CASE node = "biographer" ->
             /\ truthy(state.book_name) /\ truthy(state.author_name)
             /\ truthy(state.author_bio) /\ truthy(state.book_theme)
      [] node = "empath" -> truthy(state.audience_profile)
      [] node = "title_generator" -> truthy(state.final_title)
      [] node = "planner" -> truthy(state.book_plan)
      [] node = "writer" -> FALSE

\* the fixed hand-off message of a node
HandOffText(node) ==
    CASE node = "biographer" -> ToEmpathText
      [] node = "empath" -> ToTitleText
      [] node = "title_generator" -> ToPlannerText
      [] node = "planner" -> ToWriterText

\* what a hand-off turn that started in state base at node has appended and
\* kept so far: the node ran first without a model call and appended exactly
\* one assistant message, the fixed hand-off message, right after the input;
\* every collected field is as it was; the only other message is the
\* successor's reply
HandedOff(t, base, node) ==
    LET k == Len(base.messages) + Len(turn[t].input)
        replied == Len(turn[t].nodes) = 2 /\ turn[t].status = "done"
    IN  /\ turn[t].nodes[1] = node
        /\ ~turn[t].called[1]
        /\ Len(store[t].messages) = k + 1 + (IF replied THEN 1 ELSE 0)
        /\ SubSeq(store[t].messages, 1, k + 1)
               = base.messages \o turn[t].input
                     \o <<AIMessage(HandOffText(node))>>
        /\ \A key \in CollectedKeys :
               truthy(base[key]) => store[t][key] = base[key]

HandOffTurns ==
    {t \in Resting : /\ turn[t].streamed
                     /\ turn[t].status = "done"
                     /\ Len(turn[t].nodes) = 2}

\* C13: the stream of a turn in which the active specialist changes (from
\* Biographer to Empath, or between any two specialists) carries a transition
\* event naming the two specialists, ahead of every message event attributed
\* to the new specialist, and ends with the done event.
C13_TransitionEvents ==
    \A t \in HandOffTurns :
        LET old == DisplayName(turn[t].nodes[1])
            new == DisplayName(turn[t].nodes[2])
            sent == events[t]
        IN  /\ \E i \in 1..Len(sent) :
                  /\ sent[i].type = "transition"
                  /\ sent[i].from = old
                  /\ sent[i].to = new
                  /\ \A j \in 1..Len(sent) :
                         sent[j].type = "message" /\ sent[j].agent = new
                             => i < j
            /\ sent # <<>>
            /\ sent[Len(sent)].type = "done"

\* what event_generator does send for such a turn: the hand-off message and
\* the reply as message events, then done; never a transition event
C13_NoTransitionEvent ==
    \A t \in ThreadIds :
        \A i \in 1..Len(events[t]) :
            events[t][i].type \in {"message", "done", "error"}

\* the threads whose last turn ended with the completion call raising
FailedTurns == {t \in ThreadIds : turn[t].status = "failed"}

\* C14: after a turn whose completion call failed, in the first node or in
\* the successor after a hand-off, the state persisted for the thread has
\* the stage, the collected fields and the messages it had before the turn.
C14_NoPartialPersistence ==
    \A t \in FailedTurns :
        LET before == turn[t].base
            after == resume(store, t)
        IN  /\ after.stage = before.stage
            /\ SameFields(after, before)
            /\ after.messages = before.messages

\* what the checkpointer does hold after such a turn: the input of the
\* failed turn, and the update of the hand-off when one ran before the call
C14_InputAndHandOffPersisted ==
    \A t \in FailedTurns :
        LET before == turn[t].base
            after == resume(store, t)
            handed == Len(turn[t].nodes) = 2
        IN  /\ after.messages
                   = before.messages \o turn[t].input
                       \o (IF handed
                           THEN <<AIMessage(HandOffText(turn[t].nodes[1]))>>
                           ELSE <<>>)
            /\ handed => after.stage = turn[t].nodes[2]

\* both requests on thread_id "a" have made their turn, and both ended
\* normally
RaceDone ==
    /\ thread = [t \in ThreadIds |-> "a"]
    /\ \A t \in ThreadIds :
          turn[t].status = "done" /\ budget[t] = MaxRaceTurns - 1

\* the state the thread had before the two turns: what the turn that began
\* first resumed
BeforeRace ==
    IF Len(turn["a"].base.messages) <= Len(turn["b"].base.messages)
    THEN turn["a"].base ELSE turn["b"].base

\* the state after the turn of request first and then the turn of request
\* second, run one after the other
Sequential(first, second) ==
    invoke(invoke(BeforeRace, turn[first].input, ShortReply),
           turn[second].input, ShortReply)

\* C15: two turns on the same thread_id are serialized: whatever the
\* interleaving of two requests (streaming or not), once both turns have
\* ended the persisted state is the state that running the two turns one
\* after the other, in one of the two orders, leaves; no update is lost.
C15_Serialized ==
    RaceDone =>
        resume(store, "a") \in {Sequential("a", "b"), Sequential("b", "a")}

\* the requests whose current or last turn has called the model from a node
\* that reads its prompt from the configuration
Prompted ==
    {t \in ThreadIds : /\ turn[t].prompt # <<>>
                       /\ reads_configs(turn[t].nodes[Len(turn[t].nodes)])}

\* C16: the model input of a turn is built from the prompt text the table
\* holds for the specialist when the turn runs, also when that text was
\* changed after an earlier turn of the process.
C16_HotPromptUpdate ==
    \A t \in Prompted :
        turn[t].stored # <<>> => turn[t].prompt = turn[t].stored

\* what a turn does use: the text of the first load of the process, whatever
\* the table holds when the turn runs
C16_PromptIsCached ==
    \A t \in Prompted :
        /\ cache.loaded
        /\ turn[t].prompt
               = system_prompt(turn[t].nodes[Len(turn[t].nodes)],
                               cache.configs)

\* C17: a prompt-store failure is never a turn failure: no turn fails
\* because the configuration could not be loaded, and whenever the loaded
\* configuration has no entry for the specialist the node calls the model
\* with its hard-coded prompt.
C17_FallbackNeverFails ==
    \A t \in ThreadIds :
        /\ turn[t].error # "configs"
        /\ t \in Prompted =>
               LET node == turn[t].nodes[Len(turn[t].nodes)]
               IN  config_key(node) \notin DOMAIN cache.configs
                       => turn[t].prompt = DefaultPrompt(node)

\* the part of C17 the nodes do: with no entry for the specialist in the
\* loaded configuration, the hard-coded prompt is used
C17_MissingEntryFallsBack ==
    \A t \in Prompted :
        LET node == turn[t].nodes[Len(turn[t].nodes)]
        IN  config_key(node) \notin DOMAIN cache.configs
                => turn[t].prompt = DefaultPrompt(node)

\* the requests that have begun a turn
Routed == {t \in ThreadIds : turn[t].status # "none"}

\* C18: the router never fails and is a lookup of stage: the node named by
\* stage for the five active stages, the end of the graph for complete, the
\* biographer node when stage is absent or is any other value.
C18_RouterIsTotal ==
    \A t \in Routed :
        /\ turn[t].error # "route"
        /\ turn[t].target
               = (IF turn[t].route \in Nodes THEN turn[t].route
                  ELSE IF turn[t].route = "complete" THEN "END"
                  ELSE "biographer")

\* the part of C18 the router does: the value route_entry returns (stage,
\* or biographer when stage is absent) selects the node of that name for the
\* five active stages and the end of the graph for complete; any other value
\* is returned as it is and the turn fails
C18_RecognizedStages ==
    \A t \in Routed :
        /\ turn[t].route \in Nodes => turn[t].target = turn[t].route
        /\ turn[t].route = "complete" => turn[t].target = "END"
        /\ turn[t].error = "route"
               <=> turn[t].route \notin Nodes \cup {"complete"}

\* the requests whose current or last turn could not read what the turn
\* before it on the same thread_id had persisted
Unreadable == {t \in Routed : turn[t].base # turn[t].prior}

\* C19: a turn that cannot read the persisted state of its thread_id fails
\* with an error of its own kind; the conversation is not resumed as a new
\* one.
C19_CorruptionIsAnError ==
    \A t \in Unreadable :
        /\ turn[t].status = "failed"
        /\ turn[t].error = "corruption"

\* what such a turn does: it resumes the empty state, routes to the
\* biographer node and raises no error of that kind, as a turn on a new
\* thread_id does
C19_LossResumesAsNew ==
    \A t \in Unreadable :
        /\ turn[t].base = EmptyState
        /\ turn[t].target = "biographer"
        /\ turn[t].error \in {"none", "completion"}

\* the requests whose last turn ended normally through POST /chat
Responded ==
    {t \in ThreadIds : /\ turn[t].status = "done"
                       /\ ~turn[t].streamed
                       /\ next[t] = "END"}

\* the content of the messages of a sequence
Contents(messages) == [i \in 1..Len(messages) |-> messages[i].content]

\* the messages a turn appended after its input: the assistant messages it
\* produced
Produced(t) ==
    SubSeq(resume(store, thread[t]).messages,
           Len(turn[t].base.messages) + Len(turn[t].input) + 1,
           Len(resume(store, thread[t]).messages))

\* C20: the response of POST /chat holds exactly the assistant messages
\* produced in this turn, in the order produced, none of an earlier turn,
\* and the thread_id of the request.
C20_OnlyThisTurn ==
    \A t \in Responded :
        LET response == chat_response(resume(store, thread[t]).messages,
                                      thread[t])
        IN  /\ Contents(response.messages) = Contents(Produced(t))
            /\ response.thread_id = thread[t]

\* the assistant messages that follow the latest user message of a log
SinceLastUser(messages) ==
    LET humans == {i \in 1..Len(messages) : messages[i].type = "human"}
        latest == IF humans = {} THEN 0
                  ELSE CHOOSE i \in humans : \A j \in humans : j <= i
    IN  SelectSeq(SubSeq(messages, latest + 1, Len(messages)),
                  LAMBDA m : m.type = "ai")

\* what the response does hold when the turn has a single user message: the
\* assistant messages the previous turn produced after its user message,
\* followed by the assistant messages of this turn
C20_PreviousTurnIncluded ==
    \A t \in Responded :
        LET response == chat_response(resume(store, thread[t]).messages,
                                      thread[t])
        IN  Len(turn[t].input) = 1 =>
                /\ Contents(response.messages)
                       = Contents(SinceLastUser(turn[t].base.messages)
                                      \o Produced(t))
                /\ response.thread_id = thread[t]


\* C21: a body without the required messages field is answered as a client
\* error before any node runs: the request is rejected with a validation
\* error, no node is scheduled or run, no model call is made, and no
\* checkpoint is created or changed for any thread_id.
C21_MalformedRejected ==
    [][\A t \in ThreadIds :
          \A payload \in Malformed(thread[t]) :
              Post(t, payload) =>
                  /\ turn'[t].status = "rejected"
                  /\ turn'[t].error = "validation"
                  /\ turn'[t].nodes = <<>>
                  /\ turn'[t].called = <<>>
                  /\ next'[t] = "END"
                  /\ store' = store
                  /\ committed' = committed
                  /\ cache' = cache]_vars

C21_Witness ==
    \E t \in ThreadIds :
        /\ turn[t].status = "rejected"
        /\ turn[t].error = "validation"
        /\ turn[t].called = <<>>
        /\ t \notin DOMAIN store
        /\ \E u \in DOMAIN store : turn[u].status = "done"

\* C22: a call of get_orchestrator that finds _orchestrator set returns it
\* and creates nothing; one that finds it None runs create_orchestrator,
\* which returns an orchestrator with a checkpointer attached exactly when
\* the loader returned at least one active agent; when the loader returned
\* an empty list the call raises RuntimeError and _orchestrator stays None,
\* so that the next call runs create_orchestrator again.
C22_CreatedIffAgents ==
    [][\A c \in Callers :
          GetOrchestrator(c) =>
              LET call == caller'[c]
              IN  IF singletons.orchestrator # NoOrchestrator
                  THEN /\ call.raised = "none"
                       /\ call.orchestrator = singletons.orchestrator
                       /\ singletons' = singletons
                       /\ made' = made
                  ELSE /\ made'.orchestrator = made.orchestrator + 1
                       /\ (/\ call.raised = "none"
                           /\ call.orchestrator.checkpointer # "None")
                             <=> (/\ call.loaded.raised = "none"
                                  /\ call.loaded.value # <<>>)
                       /\ call.loaded = Returned(<<>>) =>
                              /\ call.raised = "RuntimeError"
                              /\ singletons'.orchestrator = NoOrchestrator
                       /\ call.raised = "none" =>
                              /\ singletons'.orchestrator = call.orchestrator
                              /\ call.orchestrator.subagents
                                     = call.loaded.value]_vars

C22_Witness ==
    /\ caller["c1"].fn = "get_orchestrator"
    /\ caller["c1"].raised = "RuntimeError"
    /\ caller["c1"].loaded = Returned(<<>>)
    /\ caller["c2"].raised = "none"
    /\ caller["c2"].orchestrator.checkpointer = "MemorySaver"
    /\ caller["c2"].orchestrator.subagents # <<>>
    /\ made.orchestrator = 2
    /\ singletons.orchestrator = caller["c2"].orchestrator

\* the request whose step a transition is, if any
Stepped(t) == turn'[t] # turn[t] \/ next'[t] # next[t]

\* C23: turns on different thread_ids are independent: whatever the
\* interleaving of the steps of two turns, a step of a turn on one thread_id
\* leaves what is persisted for every other thread_id as it was (and creates
\* nothing for it), and the state a turn leaves behind is the state that the
\* turn alone leaves when run on what the previous turn of the same
\* thread_id left.
C23_ThreadsIndependent ==
    [][\A t \in ThreadIds :
          Stepped(t) =>
              /\ \A u \in ThreadIds \ {thread[t]} :
                     /\ u \in DOMAIN store' <=> u \in DOMAIN store
                     /\ resume(store', u) = resume(store, u)
              /\ turn'[t].status = "done" =>
                     resume(store', thread[t])
                         = invoke(turn'[t].prior, turn'[t].input,
                                  ShortReply)]_vars

C23_Witness ==
    /\ OwnThreads
    /\ turn["a"].status = "done"
    /\ turn["a"].nodes = <<"biographer", "empath">>
    /\ turn["b"].status = "running"
    /\ turn["b"].base # EmptyState
    /\ store["a"].stage = "empath"
    /\ store["b"].stage = "biographer"
    /\ store["a"] = invoke(turn["a"].prior, turn["a"].input, ShortReply)

\* the callers whose last call of a getter has returned
Got(fn) ==
    {c \in Callers : /\ caller[c].fn = fn
                     /\ caller[c].pc = "idle"
                     /\ caller[c].raised = "none"}

\* C24 as stated: whatever the interleaving of the callers, the ChatAnthropic
\* constructor runs at most once and so does the loader, and all calls of a
\* getter return the same object.
C24_InitializedOnce ==
    /\ made.model_instance <= 1
    /\ made.configs <= 1
    /\ \A c, d \in Got("get_model") : caller[c].model = caller[d].model
    /\ \A c, d \in Got("get_agent_configs") :
           caller[c].configs = caller[d].configs

\* what the getters do guarantee: a global that is set is replaced only by
\* a caller that had found it None (an empty mapping counts as set); a call
\* that finds it set returns it and runs no constructor or loader; the
\* constructor and the loader run only for a caller that found the global
\* None, so callers that race on the first initialization each run it and
\* the last assignment is the one kept; a load that raises assigns nothing.
C24_CachedOnceSet ==
    [][/\ singletons.model_instance # 0 =>
              singletons'.model_instance = singletons.model_instance
                  \/ \E c \in Callers : /\ caller[c].pc = "constructing"
                                         /\ GetModelConstruct(c)
       /\ cache.loaded =>
              cache' = cache
                  \/ \E c \in Callers : /\ caller[c].pc = "constructing"
                                         /\ GetConfigsLoad(c)
       /\ \A c \in Callers :
              /\ GetModelTest(c) /\ singletons.model_instance # 0 =>
                     /\ caller'[c].pc = "idle"
                     /\ caller'[c].model = singletons.model_instance
              /\ GetConfigsTest(c) /\ cache.loaded =>
                     /\ caller'[c].pc = "idle"
                     /\ caller'[c].configs = cache.configs
              /\ GetConfigsLoad(c) /\ ~prompts.available =>
                     /\ cache' = cache
                     /\ caller'[c].raised = "OperationalError"
       /\ made'.model_instance <= Cardinality(Callers)
       /\ made' # made =>
              \E c \in Callers : caller[c].pc = "constructing"]_vars

C24_Witness ==
    /\ cache.loaded
    /\ cache.configs = load_agent_configs(<<>>)
    /\ made.configs = 1
    /\ \A c \in Callers : /\ c \in Got("get_agent_configs")
                           /\ caller[c].configs = cache.configs
                           /\ caller[c].calls = 2

\* a is a prefix of b
IsPrefix(a, b) == Len(a) <= Len(b) /\ SubSeq(b, 1, Len(a)) = a

\* C25: the messages log is append-only: in every state of a turn (after
\* the input step and after every node step) the messages persisted for the
\* thread are the messages the turn started with, then the input of the
\* turn, then one assistant message for every node that has finished, the
\* hand-off message first when two nodes ran; so the log at the end of a
\* turn has the log at the start of the turn as a prefix and no earlier
\* message is removed, reordered or rewritten.
C25_AppendOnly ==
    \A t \in DOMAIN store :
        turn[t].status # "none" =>
            LET before == turn[t].base.messages \o turn[t].input
                after == store[t].messages
                finished == Len(turn[t].nodes)
                                - (IF turn[t].status = "failed" THEN 1 ELSE 0)
            IN  /\ IsPrefix(turn[t].base.messages, after)
                /\ IsPrefix(before, after)
                /\ Len(after) = Len(before) + finished
                /\ \A i \in (Len(before) + 1)..Len(after) :
                       after[i].type = "ai"
                /\ finished = 2 =>
                       after[Len(before) + 1]
                           = AIMessage(HandOffText(turn[t].nodes[1]))

C25_Witness ==
    \E t \in Resting :
        /\ turn[t].status = "done"
        /\ turn[t].nodes = <<"title_generator", "planner">>
        /\ Len(turn[t].base.messages) > 0
        /\ Len(store[t].messages)
               = Len(turn[t].base.messages) + Len(turn[t].input) + 2
        /\ IsPrefix(turn[t].base.messages, store[t].messages)

\* the active rows of the table, and those of one agent
ActiveRows == {r \in agent_prompts(prompts) : r.is_active}
ActiveRowsOf(agent_name) == {r \in ActiveRows : r.agent_name = agent_name}

\* C26: load_subagent_by_name(n) returns the name, description and prompt
\* of the active row of agent n, and raises ValueError when agent n has no
\* active row (no row at all, or inactive rows only);
\* load_active_subagents() returns one entry per active row, each with the
\* name, description and prompt of its row, in the order the repository
\* returns the rows (by agent_name).
C26_LoadersFollowActiveRows ==
    [][\A c \in Callers :
          /\ \A agent_name \in LoaderNames :
                 LoadSubagentByName(c, agent_name) =>
                     LET result == caller'[c].loaded
                     IN  IF ActiveRowsOf(agent_name) = {}
                         THEN result = Raised("ValueError")
                         ELSE /\ result.raised = "none"
                              /\ Len(result.value) = 1
                              /\ result.value[1].name = agent_name
                              /\ \E r \in ActiveRowsOf(agent_name) :
                                     /\ result.value[1].description
                                            = r.description
                                     /\ result.value[1].prompt
                                            = r.prompt_content
          /\ LoadActiveSubagents(c) =>
                 LET result == caller'[c].loaded
                     returned == get_active_agents(prompts)
                 IN  /\ result.raised = "none"
                     /\ Len(result.value) = Cardinality(ActiveRows)
                     /\ Len(result.value) = Len(returned)
                     /\ \A i \in 1..Len(returned) :
                            /\ returned[i] \in ActiveRows
                            /\ result.value[i].name = returned[i].agent_name
                            /\ result.value[i].description
                                   = returned[i].description
                            /\ result.value[i].prompt
                                   = returned[i].prompt_content
                     /\ \A i, j \in 1..Len(result.value) :
                            i < j => sorts_before(result.value[i].name,
                                                  result.value[j].name)]_vars

C26_Witness ==
    /\ caller["c1"].fn = "load_active_subagents"
    /\ caller["c1"].calls = 2
    /\ Len(caller["c1"].loaded.value) = 5
    /\ caller["c1"].loaded.value[1].name = ArchivistName
    /\ caller["c1"].loaded.value[1].prompt = <<"v2">>
    /\ caller["c1"].loaded.value[2].name = BiographerName
    /\ [agent_name |-> ArchivistName, prompt_content |-> <<"v1">>]
           \in prompts.retired
    /\ [agent_name |-> EditorName, prompt_content |-> <<"v1">>]
           \in prompts.retired

\* the profiling fields in the order they are filled
ProfilingOrder == <<"book_name", "author_name", "author_bio", "book_theme">>

\* the turns that ended normally after the biographer node called the model
ProfilingTurns ==
    {t \in Resting : /\ turn[t].status = "done"
                     /\ turn[t].nodes = <<"biographer">>
                     /\ turn[t].called = <<TRUE>>}

\* what C27 says of a profiling turn, given which messages meet the
\* threshold of the field at position i: the first unset field takes the
\* latest user message verbatim when the message meets its threshold, every
\* other field stays as it was, stage stays biographer and the reply of the
\* model is appended
Extracted(t, Meets(_, _)) ==
    LET base == turn[t].base
        entered == base.messages \o turn[t].input
        m == last_user_message(entered)
        unset == {i \in 1..4 : ~truthy(base[ProfilingOrder[i]])}
        first == CHOOSE i \in unset : \A j \in unset : i <= j
    IN  /\ unset # {}
        /\ \A i \in 1..4 :
               store[t][ProfilingOrder[i]]
                   = IF i = first /\ Meets(i, m) THEN m
                     ELSE base[ProfilingOrder[i]]
        /\ store[t].stage = "biographer"
        /\ Len(store[t].messages) = Len(entered) + 1
        /\ SubSeq(store[t].messages, 1, Len(entered)) = entered
        /\ store[t].messages[Len(entered) + 1].type = "ai"

\* the thresholds as C27 states them: any non-empty message for title and
\* name, more than 5 words for the bio, more than 3 words for the theme
MeetsNonEmpty(i, m) ==
    CASE i \in {1, 2} -> m # <<>>
      [] i = 3 -> split_len(m) > 5
      [] i = 4 -> split_len(m) > 3

\* the thresholds with a message of at least one word for title and name
MeetsWorded(i, m) ==
    CASE i \in {1, 2} -> split_len(m) > 0
      [] i = 3 -> split_len(m) > 5
      [] i = 4 -> split_len(m) > 3

\* C27 as stated: in a profiling turn the first unset field, in the order
\* book_name, author_name, author_bio, book_theme, takes the latest user
\* message verbatim if the message meets the threshold of that field
\* (non-empty for title and name, more than 5 words for the bio, more than 3
\* for the theme); if it does not, no field changes; in both cases at most
\* one field changes, stage stays biographer and the reply is appended.
C27_ExtractionNonEmpty ==
    \A t \in ProfilingTurns : Extracted(t, MeetsNonEmpty)

\* C27 amended: the same with the threshold of title and name being a
\* message of at least one word: a message of whitespace only is non-empty
\* but fills no field.
C27_ExtractionWorded ==
    \A t \in ProfilingTurns : Extracted(t, MeetsWorded)

C27_Witness ==
    \E t \in ProfilingTurns :
        /\ truthy(turn[t].base.author_name)
        /\ ~truthy(turn[t].base.author_bio)
        /\ turn[t].input = <<HumanMessage(MidText)>>
        /\ ~truthy(store[t].author_bio)
        /\ ~truthy(store[t].book_theme)
        /\ store[t].stage = "biographer"

\* the turns that ended normally in the empath node with the count going
\* from 2 to 3
SynthesisTurns ==
    {t \in Resting :
        /\ turn[t].status = "done"
        /\ turn[t].nodes # <<>>
        /\ turn[t].nodes[Len(turn[t].nodes)] = "empath"
        /\ store[t].audience_questions_asked = 3
        /\ turn[t].base.audience_questions_asked = 2}

\* the positions of the user messages among the last 6 messages of a log
WindowUsers(messages) ==
    {i \in 1..Len(messages) :
        i > Len(messages) - 6 /\ messages[i].type = "human"}

\* the contents of the messages at the positions of a set, in their order,
\* with " | " between two that follow each other
RECURSIVE Joined(_, _)
Joined(messages, positions) ==
    IF positions = {} THEN <<>>
    ELSE LET i == CHOOSE p \in positions : \A q \in positions : p <= q
         IN  IF positions = {i} THEN messages[i].content
             ELSE messages[i].content \o <<" ", "|", " ">>
                      \o Joined(messages, positions \ {i})

TitleTurns ==
    {t \in Resting :
        /\ turn[t].status = "done"
        /\ turn[t].nodes # <<>>
        /\ turn[t].nodes[Len(turn[t].nodes)] = "title_generator"}

\* C29: in a turn that stays in the title node, wants_title_suggestions
\* changes only when it was unset: to True when the latest user message
\* contains yes-vocabulary, else to False when it contains no-vocabulary,
\* else not at all; final_title changes only when the turn started with the
\* flag True and the message contains selection vocabulary or a digit, and
\* then to the message verbatim; no turn sets both.
C29_TwoPhaseFlag ==
    \A t \in TitleTurns :
        LET before == turn[t].base
            after == store[t]
            last == last_user_message(before.messages \o turn[t].input)
            said_yes == any_in(lower(last), YesWords)
            said_no == any_in(lower(last), NoWords)
            picked == any_in(lower(last), SelectWords) \/ any_digit(last)
        IN  /\ after.wants_title_suggestions =
                   IF before.wants_title_suggestions # Absent
                   THEN before.wants_title_suggestions
                   ELSE IF said_yes THEN "True"
                   ELSE IF said_no THEN "False"
                   ELSE Absent
            /\ after.final_title =
                   IF before.wants_title_suggestions = "True" /\ picked
                   THEN last ELSE before.final_title
            /\ ~ /\ after.wants_title_suggestions
                        # before.wants_title_suggestions
                  /\ after.final_title # before.final_title

\* an answer with both vocabularies and a number set the flag to True and
\* left final_title unset
C29_Witness ==
    \E t \in TitleTurns :
        /\ turn[t].base.wants_title_suggestions = Absent
        /\ turn[t].input = <<HumanMessage(BothText)>>
        /\ store[t].wants_title_suggestions = "True"
        /\ store[t].final_title = None

\* the turns that ended normally with the model call of the planner node
PlanTurns ==
    {t \in Resting :
        /\ turn[t].status = "done"
        /\ turn[t].nodes # <<>>
        /\ turn[t].nodes[Len(turn[t].nodes)] = "planner"}

\* the turns in which the planner node handed off to the writer
AdvancingTurns ==
    {t \in Resting :
        /\ turn[t].status = "done"
        /\ \E i \in 1..(Len(turn[t].nodes) - 1) :
               turn[t].nodes[i] = "planner" /\ turn[t].nodes[i + 1] = "writer"}

\* the positions of the assistant messages of more than 100 characters in a
\* log without its last message
EarlierPlans(messages) ==
    {i \in 1..(Len(messages) - 1) :
        messages[i].type = "ai" /\ Len(messages[i].content) > 100}

\* C30: in a turn that stays in the planner node and whose latest user
\* message contains "approve", "looks good" or "yes", book_plan is the
\* content of the most recent assistant message of more than 100 characters
\* that was in the log before the reply of the turn; without such a message
\* book_plan is empty; without an approval book_plan is unchanged; the
\* planner hands off to the writer only in a turn that started with a
\* non-empty book_plan.
C30_PlanningGate ==
    /\ \A t \in PlanTurns :
           LET log == store[t].messages
               last == last_user_message(log)
               approved == \/ contains(lower(last), <<"a", "p", "p", "r", "o", "v", "e">>)
                           \/ contains(lower(last), <<"l", "o", "o", "k", "s", " ", "g", "o", "o", "d">>)
                           \/ contains(lower(last), <<"y", "e", "s">>)
               earlier == EarlierPlans(log)
           IN  /\ approved /\ earlier # {} =>
                      \E i \in earlier :
                          /\ \A j \in earlier : j <= i
                          /\ store[t].book_plan = log[i].content
               /\ approved /\ earlier = {} => store[t].book_plan = <<>>
               /\ ~approved => store[t].book_plan = turn[t].base.book_plan
    /\ \A t \in AdvancingTurns : truthy(turn[t].base.book_plan)
    /\ \A t \in PlanTurns : ~truthy(turn[t].base.book_plan)

\* an approval took the plan of the turn before, not the older list of
\* suggestions and not the reply of its own turn
C30_Witness ==
    \E t \in PlanTurns :
        LET log == store[t].messages
        IN  /\ turn[t].input = <<HumanMessage(ApproveText)>>
            /\ store[t].book_plan = PlanReply
            /\ log[Len(log)].content = ShortReply
            /\ \E i \in EarlierPlans(log) : log[i].content = LongReply

\* the turns in which the writer node ran to its end
WriterTurns ==
    {t \in Resting :
        /\ turn[t].status = "done"
        /\ turn[t].nodes # <<>>
        /\ turn[t].nodes[Len(turn[t].nodes)] = "writer"}

\* C31: a turn in which the writer node ran made one model call and its
\* reply is the last message of the log; stage is complete when the latest
\* user message, lowered, contains "complete" or "finished" and writer
\* otherwise; no collected field and no counter or flag differs from its
\* value at the start of the turn.
C31_WriterStage ==
    \A t \in WriterTurns :
        LET before == turn[t].base
            after == store[t]
            log == after.messages
            last == lower(last_user_message(before.messages \o turn[t].input))
            over == \/ contains(last, <<"c", "o", "m", "p", "l", "e", "t", "e">>)
                    \/ contains(last, <<"f", "i", "n", "i", "s", "h", "e", "d">>)
        IN  /\ Calls(t) = 1
            /\ turn[t].called[Len(turn[t].nodes)]
            /\ Len(log) = Len(before.messages) + Len(turn[t].input)
                              + Len(turn[t].nodes)
            /\ log[Len(log)].type = "ai"
            /\ log[Len(log)].content \in Replies
            /\ after.stage = IF over THEN "complete" ELSE "writer"
            /\ \A k \in CollectedKeys : after[k] = before[k]
            /\ after.audience_questions_asked
                   = before.audience_questions_asked
            /\ after.wants_title_suggestions = before.wants_title_suggestions

\* a keyword in capitals completed the book; the plan is still the plan
C31_Witness ==
    \E t \in WriterTurns :
        /\ turn[t].input = <<HumanMessage(CapitalsText)>>
        /\ turn[t].base.stage = "writer"
        /\ store[t].stage = "complete"
        /\ store[t].book_plan = LongReply

\* what a state must hold for its stage
Prerequisites(state) ==
    /\ StageIndex(state.stage) >= 2 =>
           /\ truthy(state.book_name)
           /\ truthy(state.author_name)
           /\ truthy(state.author_bio)
           /\ truthy(state.book_theme)
    /\ StageIndex(state.stage) >= 3 => truthy(state.audience_profile)
    /\ StageIndex(state.stage) >= 4 => truthy(state.final_title)
    /\ StageIndex(state.stage) >= 5 => truthy(state.book_plan)

\* C32: in every state, persisted or in the hands of a running turn, stage
\* at or beyond empath implies book_name, author_name, author_bio and
\* book_theme are set; at or beyond title_generator, audience_profile; at or
\* beyond planner, final_title; at or beyond writer (complete included),
\* book_plan.
C32_StagePrerequisites ==
    /\ \A t \in DOMAIN store : Prerequisites(store[t])
    /\ \A t \in ThreadIds : Prerequisites(local[t])

\* a failed model call in the node a hand-off led to left the new stage
\* persisted, with its prerequisites
C32_Witness ==
    \E t \in Resting :
        /\ turn[t].status = "failed"
        /\ Len(turn[t].nodes) = 2
        /\ StageIndex(store[t].stage) = StageIndex(turn[t].base.stage) + 1
        /\ store[t].stage = "writer"
        /\ store[t].book_plan = LongReply

\* C33: the stage at the end of a turn is the stage at its start or the
\* immediate successor of that stage.
C33_OneStagePerTurn ==
    \A t \in Resting :
        turn[t].status = "done" =>
            \/ StageIndex(store[t].stage) = StageIndex(turn[t].base.stage)
            \/ StageIndex(store[t].stage)
                   = StageIndex(turn[t].base.stage) + 1

\* the log holds a reply of the Empath: an assistant message after the
\* message of the hand-off to the Empath
EmpathReplied(messages) ==
    \E i, j \in 1..Len(messages) :
        /\ i < j
        /\ messages[i] = AIMessage(ToEmpathText)
        /\ messages[j].type = "ai"

\* C34: audience_questions_asked grows only in a turn that started with a
\* reply of the Empath in its history, and by one per turn at most.
C34_CountsRepliesToEmpath ==
    \A t \in Resting :
        (/\ turn[t].status = "done"
         /\ store[t].audience_questions_asked
                > turn[t].base.audience_questions_asked)
            => /\ EmpathReplied(turn[t].base.messages)
               /\ store[t].audience_questions_asked
                      = turn[t].base.audience_questions_asked + 1

\* the positions of the replies of the Planner in a log: the assistant
\* messages after the message of the hand-off to the Planner, up to the
\* message of the hand-off to the Writer
PlannerReplies(messages) ==
    {j \in 1..Len(messages) :
        /\ messages[j].type = "ai"
        /\ messages[j].content # ToWriterText
        /\ \E i \in 1..(j - 1) : messages[i] = AIMessage(ToPlannerText)
        /\ \A i \in 1..(j - 1) : messages[i] # AIMessage(ToWriterText)}

\* C35: a book_plan that is set is the content of a reply of the Planner.
C35_PlanFromPlanner ==
    \A t \in DOMAIN store :
        truthy(store[t].book_plan) =>
            \E j \in PlannerReplies(store[t].messages) :
                store[t].messages[j].content = store[t].book_plan

\* the number of segments of a profile: one more than the separators in it
\* (no user text of the model holds a separator)
Segments(profile) ==
    1 + Cardinality({i \in 1..(Len(profile) - 2) :
                        SubSeq(profile, i, i + 2) = <<" ", "|", " ">>})

\* a text is the last segment of a profile
LastSegment(profile, text) ==
    /\ Len(text) <= Len(profile)
    /\ SubSeq(profile, Len(profile) - Len(text) + 1, Len(profile)) = text
    /\ Len(text) < Len(profile) =>
           /\ Len(profile) - Len(text) >= 3
           /\ SubSeq(profile, Len(profile) - Len(text) - 2,
                      Len(profile) - Len(text)) = <<" ", "|", " ">>

\* C36: an audience_profile that is set is not empty and has at most 3
\* segments, and in the turn that sets it its last segment is the latest
\* user message.
C36_ProfileShape ==
    /\ \A t \in DOMAIN store :
           store[t].audience_profile # None =>
               /\ store[t].audience_profile # <<>>
               /\ Segments(store[t].audience_profile) <= 3
    /\ \A t \in SynthesisTurns :
           LastSegment(store[t].audience_profile,
                       last_user_message(store[t].messages))

\* the threads whose current or last turn is a streamed one
Streamed == {t \in ThreadIds : turn[t].status # "none" /\ turn[t].streamed}

\* the positions of the terminal events of a stream
Terminals(stream) ==
    {i \in 1..Len(stream) : stream[i].type \in {"done", "error"}}

\* the assistant messages a turn has added to the log of its thread
AddedByTurn(t) ==
    SelectSeq(SubSeq(store[thread[t]].messages,
                     Len(turn[t].base.messages) + Len(turn[t].input) + 1,
                     Len(store[thread[t]].messages)),
              LAMBDA m : m.type = "ai")

\* C37: a stream has no terminal event while its turn runs and exactly one,
\* in the last place, once the turn is over: done when the turn succeeded,
\* error when it raised; the events before it are message events of role
\* assistant, one for each assistant message the turn produced, in the
\* order of the log.
C37_OneTerminalEvent ==
    \A t \in Streamed :
        LET stream == events[t]
            messages == SelectSeq(stream, LAMBDA e : e.type = "message")
        IN  /\ turn[t].status = "running" => Terminals(stream) = {}
            /\ turn[t].status = "done" =>
                   /\ Terminals(stream) = {Len(stream)}
                   /\ stream[Len(stream)].type = "done"
            /\ turn[t].status = "failed" =>
                   /\ Terminals(stream) = {Len(stream)}
                   /\ stream[Len(stream)].type = "error"
            /\ \A i \in 1..Len(messages) : messages[i].role = "assistant"
            /\ Len(messages) = Len(AddedByTurn(t))
            /\ \A i \in 1..Len(messages) :
                   messages[i].content = AddedByTurn(t)[i].content

\* a stream of two message events, the hand-off and the reply, and done
C37_Witness ==
    \E t \in Streamed :
        /\ turn[t].status = "done"
        /\ Len(events[t]) = 3
        /\ events[t][1].type = "message"
        /\ events[t][1].content = ToEmpathText
        /\ events[t][2].type = "message"
        /\ events[t][2].content \in Replies
        /\ events[t][3].type = "done"

\* the positions of the active prompts of a name among the prompts of the
\* session
ActivePrompts(agent_name) ==
    {i \in 1..Len(all_prompts(session)) :
        /\ all_prompts(session)[i].agent_name = agent_name
        /\ all_prompts(session)[i].is_active}

\* C38: after any sequence of create_prompt calls on one session each
\* agent_name has at most one prompt with is_active = True, and it is the
\* last prompt of that name.
C38_OneActivePerName ==
    \A agent_name \in {BiographerName, EmpathName} :
        /\ Cardinality(ActivePrompts(agent_name)) <= 1
        /\ \A i \in ActivePrompts(agent_name) :
               \A j \in (i + 1)..Len(all_prompts(session)) :
                   all_prompts(session)[j].agent_name = agent_name
                       => ~all_prompts(session)[j].is_active

\* creating a prompt with is_active = False changes no existing prompt
C38_InactiveChangesNothing ==
    [][\A agent_name \in {BiographerName, EmpathName},
         prompt_content \in PromptTexts :
           CreatePrompt(agent_name, prompt_content, FALSE)
               => /\ session'.rows = session.rows
                  /\ SubSeq(session'.new, 1, Len(session.new)) = session.new]_vars

\* a chapter of the table has the id that a text names
Found(chapter_id) ==
    \E id \in DOMAIN chapters :
        /\ Len(SelectSeq(chapter_id, LAMBDA c : c # "-")) = 32
        /\ lower(SelectSeq(chapter_id, LAMBDA c : c # "-")) = id

\* C39: save_chapter_draft and save_chapter_transcript return
\* success = False and leave the chapters table as it was when the file is
\* not in the virtual filesystem, the chapter id is no UUID or no chapter
\* has that id (or the database cannot be reached); they return
\* success = True exactly when the chapter was found, and then the table
\* holds the content of the file for that chapter and nothing else is
\* changed; save_hitl_clarifications without a clarifications file returns
\* success = True with count 0 and leaves the table as it was; no tool
\* writes the checkpoints or the virtual filesystem.
C39_FailureAsValue ==
    [][\A chapter_id \in ChapterIds, chapter_number \in ChapterNumbers :
          /\ SaveChapterDraft(chapter_id, chapter_number) =>
                LET key == file_key(chapter_number, "draft.md")
                    ok == /\ key \in DOMAIN files
                          /\ Found(chapter_id)
                          /\ prompts.available
                IN  /\ outcome'.success = ok
                    /\ ~ok => chapters' = chapters
                    /\ ok => chapters' =
                           [chapters EXCEPT
                               ![KnownId].draft_content = files[key].text,
                               ![KnownId].status = "drafted"]
                    /\ store' = store /\ files' = files
          /\ SaveChapterTranscript(chapter_id, chapter_number) =>
                LET key == file_key(chapter_number, "transcript.txt")
                    ok == /\ key \in DOMAIN files
                          /\ Found(chapter_id)
                          /\ prompts.available
                IN  /\ outcome'.success = ok
                    /\ ~ok => chapters' = chapters
                    /\ ok => chapters' =
                           [chapters EXCEPT
                               ![KnownId].raw_transcript = files[key].text,
                               ![KnownId].status = "transcript_provided"]
                    /\ store' = store /\ files' = files
          /\ SaveHitlClarifications(chapter_id, chapter_number) =>
                /\ file_key(chapter_number, "clarifications.json")
                       \notin DOMAIN files =>
                       /\ outcome'.success
                       /\ outcome'.size = 0
                       /\ chapters' = chapters
                /\ store' = store /\ files' = files]_vars

\* a draft was saved under an id written with capitals and hyphens, and a
\* later call with an id of no chapter failed and left the draft in place
C39_Witness ==
    /\ outcome.tool = "save_chapter_draft"
    /\ ~outcome.success
    /\ outcome.error = "Invalid chapter_id"
    /\ outcome.calls = 2
    /\ KnownId \in DOMAIN chapters
    /\ chapters[KnownId].draft_content = LongText
    /\ chapters[KnownId].status = "drafted"

\* the positions of the topics of a list of which the lowered form is no
\* part of the lowered transcript
MissingPositions(topics, transcript) ==
    {i \in 1..Len(topics) :
        ~\E k \in 0..(Len(transcript) - Len(topics[i])) :
            \A c \in 1..Len(topics[i]) :
                lower(transcript)[k + c] = lower(topics[i])[c]}

\* the topics at the positions of a set, in the order of the list
TopicsAt(topics, positions) ==
    [j \in 1..Cardinality(positions) |->
        topics[CHOOSE i \in positions :
                   Cardinality({k \in positions : k <= i}) = j]]

====
